---- MODULE Spec2Model ----
(***************************************************************************)
(* A model of kho/fslm: the Builder (AddNgram, link, prune, moveHashed,    *)
(* moveSorted), the open-addressing map xqwMap it is built on, and the     *)
(* query functions of the two compiled models, Hashed and Sorted.          *)
(*                                                                         *)
(* Conventions.                                                            *)
(*  - Go slices are 0-based, TLA+ sequences 1-based: element i of a slice  *)
(*    is element i+1 of the sequence.  State ids and word ids keep their   *)
(*    0-based values.                                                      *)
(*  - StateId and word.Id are uint32 and their NIL is the all-ones value   *)
(*    2^32-1.  TLC's integers are 32-bit signed, so NIL is written as the  *)
(*    largest value TLC has; the code only uses that NIL differs from and  *)
(*    is larger than every id in use, and its hash, which is computed from *)
(*    the true bytes FF FF FF FF (see KeyBytes).                           *)
(*  - Weight is a float32 log-probability.  Weights are drawn from small   *)
(*    integers, which float32 represents and adds exactly; WEIGHT_LOG0     *)
(*    (-Inf) is a value below every sum and absorbing under WAdd.          *)
(***************************************************************************)
EXTENDS Integers, Sequences, FiniteSets, TLC

\* ------------------------------------------------------------------------
\* Basic types and constants (basic.go)

STATE_NIL == 2147483647
WORD_NIL == 2147483647
STATE_EMPTY == 0
STATE_START == 1
WEIGHT_LOG0 == -1000000
textLog0 == -99

\* Float addition restricted to finite values and -Inf: -Inf absorbs.
WAdd(a, b) == IF a = WEIGHT_LOG0 \/ b = WEIGHT_LOG0 THEN WEIGHT_LOG0 ELSE a + b

StateWeight(q, w) == [State |-> q, Weight |-> w]
WordStateWeight(x, q, w) == [Word |-> x, State |-> q, Weight |-> w]
xqwEntry(k, v) == [Key |-> k, Value |-> v]

\* ------------------------------------------------------------------------
\* WordIdHash (probing_params.go): the fast-hash mixer on uint64, computed
\* on eight little-endian bytes because the values exceed TLC's integers.

\* The largest word id whose hash is tabulated (ids in use are far below).
MaxKey == 7

RECURSIVE NatBytes(_, _)
NatBytes(n, len) == IF len = 0 THEN <<>> ELSE <<n % 256>> \o NatBytes(n \div 256, len - 1)

\* uint64(k) for a word id k.
KeyBytes(k) ==
    IF k = WORD_NIL THEN <<255, 255, 255, 255, 0, 0, 0, 0>> ELSE NatBytes(k, 8)

BytesBits(bs) == [i \in 1..64 |-> (bs[((i - 1) \div 8) + 1] \div (2 ^ ((i - 1) % 8))) % 2]

BitsBytes(bits) ==
    [j \in 1..8 |->
        LET B(i) == bits[8 * (j - 1) + i]
        IN  B(1) + 2 * B(2) + 4 * B(3) + 8 * B(4) + 16 * B(5) + 32 * B(6)
              + 64 * B(7) + 128 * B(8)]

\* h ^ (h >> s) on 64 bits.
XorShiftRight(h, s) ==
    LET bits == BytesBits(h)
    IN  BitsBytes([i \in 1..64 |->
            IF i + s <= 64 THEN (bits[i] + bits[i + s]) % 2 ELSE bits[i]])

\* 0x2127599bf4325c37, little-endian.
HashMultiplier == <<55, 92, 50, 244, 155, 89, 39, 33>>

\* Column k (0-based) of the schoolbook product of two 8-byte numbers.
RECURSIVE MulColumn(_, _, _, _)
MulColumn(a, b, k, i) ==
    IF i > k THEN 0 ELSE a[i + 1] * b[k - i + 1] + MulColumn(a, b, k, i + 1)

RECURSIVE MulFrom(_, _, _, _)
MulFrom(a, b, k, carry) ==
    IF k = 8 THEN <<>>
    ELSE LET s == MulColumn(a, b, k, 0) + carry
         IN  <<s % 256>> \o MulFrom(a, b, k + 1, s \div 256)

\* a * b modulo 2^64.
Mul64(a, b) == MulFrom(a, b, 0, 0)

WordIdHashBytes(k) ==
    XorShiftRight(Mul64(XorShiftRight(KeyBytes(k), 23), HashMultiplier), 47)

HashTable == [k \in (0..MaxKey) \cup {WORD_NIL} |-> WordIdHashBytes(k)]

\* WordIdHash(k) % n, by Horner's rule from the most significant byte.
RECURSIVE BytesMod(_, _, _, _)
BytesMod(bs, i, n, acc) ==
    IF i = 0 THEN acc ELSE BytesMod(bs, i - 1, n, (acc * 256 + bs[i]) % n)

WordIdHashMod(k, n) == BytesMod(HashTable[k], 8, n, 0)

WordIdEqual(a, b) == a = b

\* ------------------------------------------------------------------------
\* xqwBuckets and xqwMap (probing_impl.go).  A bucket pointer is the 1-based
\* index of the bucket; 0 stands for a probe loop that never returns (no
\* bucket ends it).

xqwInitBuckets(n) == [i \in 1..n |-> xqwEntry(WORD_NIL, StateWeight(0, 0))]

\* b.start(k) as a 1-based index.
BucketStart(b, k) == WordIdHashMod(k, Len(b)) + 1

NextIndex(b, i) == IF i = Len(b) THEN 1 ELSE i + 1

RECURSIVE FindEntryFrom(_, _, _, _)
FindEntryFrom(b, k, i, steps) ==
    IF steps = Len(b) THEN 0
    ELSE IF WordIdEqual(b[i].Key, k) \/ WordIdEqual(b[i].Key, WORD_NIL) THEN i
    ELSE FindEntryFrom(b, k, NextIndex(b, i), steps + 1)

\* xqwBuckets.FindEntry: the bucket holding k, or the first empty bucket.
BucketsFindEntry(b, k) == FindEntryFrom(b, k, BucketStart(b, k), 0)

RECURSIVE NextAvailableFrom(_, _, _)
NextAvailableFrom(b, i, steps) ==
    IF steps = Len(b) THEN 0
    ELSE IF WordIdEqual(b[i].Key, WORD_NIL) THEN i
    ELSE NextAvailableFrom(b, NextIndex(b, i), steps + 1)

\* xqwBuckets.nextAvailable: the first empty bucket from k's start.
BucketsNextAvailable(b, k) == NextAvailableFrom(b, BucketStart(b, k), 0)

\* The nil pointer of xqwBuckets.Find.
NotFound == [found |-> FALSE]
Found(v) == [found |-> TRUE, State |-> v.State, Weight |-> v.Weight]

RECURSIVE FindFrom(_, _, _, _)
FindFrom(b, k, i, steps) ==
    IF steps = Len(b) THEN [found |-> FALSE, diverges |-> TRUE]
    ELSE IF WordIdEqual(b[i].Key, k) THEN Found(b[i].Value)
    ELSE IF WordIdEqual(b[i].Key, WORD_NIL) THEN NotFound
    ELSE FindFrom(b, k, NextIndex(b, i), steps + 1)

\* xqwBuckets.Find: the key is tested before the empty marker.
BucketsFind(b, k) == FindFrom(b, k, BucketStart(b, k), 0)

\* xqwBuckets.Range: the live entries in bucket order.
RECURSIVE BucketsRangeFrom(_, _)
BucketsRangeFrom(b, i) ==
    IF i > Len(b) THEN <<>>
    ELSE IF b[i].Key # WORD_NIL THEN <<b[i]>> \o BucketsRangeFrom(b, i + 1)
    ELSE BucketsRangeFrom(b, i + 1)

BucketsRange(b) == BucketsRangeFrom(b, 1)

\* xqwBuckets.Size
BucketsSize(b) == Len(BucketsRange(b))

\* A nil *xqwMap.
NilMap == [buckets |-> <<>>, numEntries |-> 0, threshold |-> 0]

\* newXqwMap(initNumBuckets, maxUsed); maxUsed is given in tenths.
DefaultNumBuckets == 4
DefaultMaxUsed10 == 8

newXqwMap(initNumBuckets, maxUsed10) ==
    LET n == IF initNumBuckets = 0 THEN DefaultNumBuckets
             ELSE IF initNumBuckets < 2 THEN 2 ELSE initNumBuckets
        mu == IF maxUsed10 <= 0 \/ maxUsed10 >= 10 THEN DefaultMaxUsed10 ELSE maxUsed10
        t0 == (n * mu) \div 10
        t1 == IF t0 < 1 THEN 1 ELSE t0
        t2 == IF t1 > n - 1 THEN n - 1 ELSE t1
    IN  [buckets |-> xqwInitBuckets(n), numEntries |-> 0, threshold |-> t2]

MapSize(m) == m.numEntries

MapFind(m, k) == BucketsFind(m.buckets, k)

\* A re-insertion that keeps every entry at the index it had.
RECURSIVE ReinsertFrom_SamePlace(_, _, _)
ReinsertFrom_SamePlace(old, i, new) ==
    IF i > Len(old) THEN new
    ELSE IF WordIdEqual(old[i].Key, WORD_NIL) THEN ReinsertFrom_SamePlace(old, i + 1, new)
    ELSE ReinsertFrom_SamePlace(old, i + 1,
             [new EXCEPT ![((i - 1) % Len(new)) + 1] = old[i]])

RECURSIVE ReinsertFrom(_, _, _)
ReinsertFrom(old, i, new) ==
    IF i > Len(old) THEN new
    ELSE IF WordIdEqual(old[i].Key, WORD_NIL) THEN ReinsertFrom(old, i + 1, new)
    ELSE ReinsertFrom(old, i + 1,
             [new EXCEPT ![BucketsNextAvailable(new, old[i].Key)] = old[i]])

\* A Resize that takes numBuckets as given, without room for an empty bucket.
MapResize_NoSpare(m, numBuckets) ==
    LET n == IF numBuckets < m.numEntries THEN m.numEntries ELSE numBuckets
        t == (m.threshold * n) \div Len(m.buckets)
    IN  [buckets |-> ReinsertFrom(m.buckets, 1, xqwInitBuckets(n)),
         numEntries |-> m.numEntries,
         threshold |-> IF t < m.numEntries THEN m.numEntries ELSE t]

\* xqwMap.Resize
MapResize(m, numBuckets) ==
    LET n == IF numBuckets < m.numEntries + 1 THEN m.numEntries + 1 ELSE numBuckets
        t == (m.threshold * n) \div Len(m.buckets)
    IN  [buckets |-> ReinsertFrom(m.buckets, 1, xqwInitBuckets(n)),
         numEntries |-> m.numEntries,
         threshold |-> IF t < m.numEntries THEN m.numEntries ELSE t]

\* A FindOrInsert that grows only once the entry count is past the threshold.
MapSet_GrowLate(m, k, v) ==
    LET e == BucketsFindEntry(m.buckets, k)
    IN  IF m.buckets[e].Key # WORD_NIL
        THEN [m EXCEPT !.buckets[e].Value = v]
        ELSE LET grown == IF m.numEntries > m.threshold
                          THEN MapResize(m, Len(m.buckets) * 2) ELSE m
                 slot == IF m.numEntries > m.threshold
                         THEN BucketsNextAvailable(grown.buckets, k) ELSE e
             IN  [grown EXCEPT !.buckets[slot] = xqwEntry(k, v),
                               !.numEntries = grown.numEntries + 1]

\* xqwMap.FindOrInsert followed by the caller's store through the returned
\* pointer: *m.FindOrInsert(k) = v.
MapSet(m, k, v) ==
    LET e == BucketsFindEntry(m.buckets, k)
    IN  IF m.buckets[e].Key # WORD_NIL
        THEN [m EXCEPT !.buckets[e].Value = v]
        ELSE LET grown == IF m.numEntries >= m.threshold
                          THEN MapResize(m, Len(m.buckets) * 2) ELSE m
                 slot == IF m.numEntries >= m.threshold
                         THEN BucketsNextAvailable(grown.buckets, k) ELSE e
             IN  [grown EXCEPT !.buckets[slot] = xqwEntry(k, v),
                               !.numEntries = grown.numEntries + 1]

\* ------------------------------------------------------------------------
\* Vocab (vocab.go): id2str is the list of words, str2id its inverse.

Vocab(id2str) ==
    [id2str |-> id2str,
     str2id |-> [s \in {id2str[i] : i \in DOMAIN id2str} |->
                    (CHOOSE i \in DOMAIN id2str :
                        id2str[i] = s /\ \A j \in DOMAIN id2str : id2str[j] = s => j <= i) - 1]]

\* A duplicate check that compares neighbours only.
NewVocabPanics_Adjacent(initWords) ==
    \E i \in 1..(Len(initWords) - 1) : initWords[i] = initWords[i + 1]

\* NewVocab panics when the map is smaller than the list.
NewVocabPanics(initWords) ==
    Cardinality({initWords[i] : i \in DOMAIN initWords}) # Len(initWords)

NewVocab(initWords) == Vocab(initWords)

VocabCopy(v) == NewVocab(v.id2str)

Bound(v) == Len(v.id2str)

IdOf(v, s) == IF s \in DOMAIN v.str2id THEN v.str2id[s] ELSE WORD_NIL

StringOf(v, i) == v.id2str[i + 1]

\* IdOrAdd returns the id and changes the vocabulary.
IdOrAddVocab(v, s) ==
    IF s \in DOMAIN v.str2id THEN v
    ELSE [id2str |-> Append(v.id2str, s),
          str2id |-> [t \in DOMAIN v.str2id \cup {s} |->
                         IF t = s THEN Bound(v) ELSE v.str2id[t]]]

IdOrAddId(v, s) == IF s \in DOMAIN v.str2id THEN v.str2id[s] ELSE Bound(v)

\* ------------------------------------------------------------------------
\* Builder (builder.go).  A Builder is a record of its fields; state s is at
\* index s+1 of transitions and backoff.

\* The nil *word.Vocab.
NilVocab == [id2str |-> <<>>, str2id |-> <<>>]

\* Builder.newState appends a state; the new id is the old length.
newState(b) ==
    [b EXCEPT !.transitions = Append(@, NilMap),
              !.backoff = Append(@, StateWeight(STATE_NIL, 0))]

\* Builder.setTransition
setTransition(b, p, x, q, w) ==
    LET m == IF b.transitions[p + 1] = NilMap THEN newXqwMap(0, 0)
             ELSE b.transitions[p + 1]
    IN  [b EXCEPT !.transitions[p + 1] = MapSet(m, x, StateWeight(q, w))]

\* Builder.setBackOffWeight
setBackOffWeight(b, p, bow) == [b EXCEPT !.backoff[p + 1].Weight = bow]

\* A mutant of findNextState: the transition to an existing state is written
\* again with weight 0.
findNextState_Overwrite(b, p, x) ==
    LET b1 == IF b.transitions[p + 1] = NilMap
              THEN [b EXCEPT !.transitions[p + 1] = newXqwMap(0, 0)] ELSE b
        qw == MapFind(b1.transitions[p + 1], x)
    IN  IF qw.found THEN [b |-> setTransition(b1, p, x, qw.State, 0), q |-> qw.State]
        ELSE [b |-> setTransition(newState(b1), p, x, Len(b1.backoff), 0),
              q |-> Len(b1.backoff)]

\* Builder.findNextState: the builder after the call and the state returned.
findNextState(b, p, x) ==
    LET b1 == IF b.transitions[p + 1] = NilMap
              THEN [b EXCEPT !.transitions[p + 1] = newXqwMap(0, 0)] ELSE b
        qw == MapFind(b1.transitions[p + 1], x)
    IN  IF qw.found THEN [b |-> b1, q |-> qw.State]
        ELSE [b |-> setTransition(newState(b1), p, x, Len(b1.backoff), 0),
              q |-> Len(b1.backoff)]

\* Builder.findState
RECURSIVE findState(_, _, _)
findState(b, p, ws) ==
    IF ws = <<>> THEN [b |-> b, q |-> p]
    ELSE LET x == IdOrAddId(b.vocab, Head(ws))
             b1 == [b EXCEPT !.vocab = IdOrAddVocab(b.vocab, Head(ws))]
             r == findNextState(b1, p, x)
         IN  findState(r.b, r.q, Tail(ws))

\* NewBuilder is fatal when bos = eos or either is not in the vocabulary.
NewBuilderFatal(vocab, bos, eos) ==
    IF vocab = NilVocab THEN FALSE
    ELSE bos = eos \/ IdOf(vocab, bos) = WORD_NIL \/ IdOf(vocab, eos) = WORD_NIL

\* NewBuilder(vocab, bos, eos)
NewBuilder(vocab, bos, eos) ==
    LET v == IF vocab = NilVocab THEN NewVocab(<<"<s>", "</s>">>) ELSE VocabCopy(vocab)
        bs == IF vocab = NilVocab THEN "<s>" ELSE bos
        es == IF vocab = NilVocab THEN "</s>" ELSE eos
        b0 == [vocab |-> v, bos |-> bs, eos |-> es,
               bosId |-> IdOf(v, bs), eosId |-> IdOf(v, es),
               transitions |-> <<>>, backoff |-> <<>>]
    IN  setTransition(newState(newState(b0)), STATE_EMPTY, IdOf(v, bs), STATE_START, 0)

\* Conditions that reject <s> at the head of the context as well.
AddNgramFatal_AnyBos(b, context, word) ==
    \E i \in 1..Len(context) : context[i] = b.bos \/ context[i] = b.eos

\* The glog.Fatalf conditions of AddNgram.
AddNgramFatal(b, context, word) ==
    /\ Len(context) > 0
    /\ \/ context[1] = b.eos
       \/ \E i \in 2..Len(context) : context[i] = b.bos \/ context[i] = b.eos

\* An AddNgram that walks the context before it checks it.
AddNgramAborted_AfterFindState(b, context, word) ==
    findState(b, STATE_EMPTY, context).b

\* The builder a fatal AddNgram leaves: glog.Fatalf ends the call before
\* findState.
AddNgramAborted(b, context, word) == b

\* An AddNgram that treats </s> as any other word: it makes a destination
\* state and gives it the back-off weight.
AddNgram_EosState(b, context, word, weight, backOff) ==
    LET w == IF weight <= textLog0 THEN WEIGHT_LOG0 ELSE weight
        bo == IF backOff <= textLog0 THEN WEIGHT_LOG0 ELSE backOff
        r == findState(b, STATE_EMPTY, context)
        x == IdOrAddId(r.b.vocab, word)
        b1 == [r.b EXCEPT !.vocab = IdOrAddVocab(r.b.vocab, word)]
        r2 == findNextState(b1, r.q, x)
    IN  setTransition(setBackOffWeight(r2.b, r2.q, bo), r.q, x, r2.q, w)

\* Builder.AddNgram for a call that is not fatal (the warnings only log).
AddNgram(b, context, word, weight, backOff) ==
    LET w == IF weight <= textLog0 THEN WEIGHT_LOG0 ELSE weight
        bo == IF backOff <= textLog0 THEN WEIGHT_LOG0 ELSE backOff
        r == findState(b, STATE_EMPTY, context)
        x == IdOrAddId(r.b.vocab, word)
        b1 == [r.b EXCEPT !.vocab = IdOrAddVocab(r.b.vocab, word)]
    IN  IF x # b1.eosId
        THEN LET r2 == findNextState(b1, r.q, x)
             IN  setTransition(setBackOffWeight(r2.b, r2.q, bo), r.q, x, r2.q, w)
        ELSE setTransition(b1, r.q, x, STATE_NIL, w)

\* Builder.linkTransition, as the backoff array after the call; the pair it
\* returns is backoff[q] of that array.
RECURSIVE pBackFor(_, _, _, _)
pBackFor(tr, bk, pBack, x) ==
    IF ~MapFind(tr[pBack + 1], x).found /\ pBack # STATE_EMPTY
    THEN pBackFor(tr, bk, bk[pBack + 1].State, x)
    ELSE pBack

\* A mutant of linkTransition: the back-off weight of a skipped state is not
\* added to the weight of the state that skips it.
RECURSIVE linkTransition_NoAdd(_, _, _, _, _)
linkTransition_NoAdd(tr, bk, p, x, q) ==
    IF bk[q + 1].State # STATE_NIL THEN bk
    ELSE LET pBack == pBackFor(tr, bk, bk[p + 1].State, x)
             qwBack == MapFind(tr[pBack + 1], x)
         IN  IF qwBack.found
             THEN LET qBack == qwBack.State
                      bk1 == linkTransition_NoAdd(tr, bk, pBack, x, qBack)
                  IN  IF tr[qBack + 1] = NilMap
                      THEN [bk1 EXCEPT ![q + 1].State = bk1[qBack + 1].State]
                      ELSE [bk1 EXCEPT ![q + 1].State = qBack]
             ELSE [bk EXCEPT ![q + 1].State = STATE_EMPTY]

RECURSIVE linkTransition(_, _, _, _, _)
linkTransition(tr, bk, p, x, q) ==
    IF bk[q + 1].State # STATE_NIL THEN bk
    ELSE LET pBack == pBackFor(tr, bk, bk[p + 1].State, x)
             qwBack == MapFind(tr[pBack + 1], x)
         IN  IF qwBack.found
             THEN LET qBack == qwBack.State
                      bk1 == linkTransition(tr, bk, pBack, x, qBack)
                  IN  IF tr[qBack + 1] = NilMap
                      THEN [bk1 EXCEPT ![q + 1] =
                               StateWeight(bk1[qBack + 1].State,
                                           WAdd(bk1[q + 1].Weight, bk1[qBack + 1].Weight))]
                      ELSE [bk1 EXCEPT ![q + 1].State = qBack]
             ELSE [bk EXCEPT ![q + 1].State = STATE_EMPTY]

\* The first loop of link: the children of _STATE_EMPTY back off to it.
RECURSIVE linkEmpty(_, _)
linkEmpty(es, bk) ==
    IF es = <<>> THEN bk
    ELSE linkEmpty(Tail(es),
             IF Head(es).Value.State # STATE_NIL
             THEN [bk EXCEPT ![Head(es).Value.State + 1].State = STATE_EMPTY] ELSE bk)

\* The inner loop of link over the transitions of one state p.
RECURSIVE linkState(_, _, _, _)
linkState(tr, bk, p, es) ==
    IF es = <<>> THEN bk
    ELSE linkState(tr,
             IF Head(es).Value.State # STATE_NIL
             THEN linkTransition(tr, bk, p, Head(es).Key, Head(es).Value.State) ELSE bk,
             p, Tail(es))

RECURSIVE linkFrom(_, _, _)
linkFrom(tr, bk, p) ==
    IF p >= Len(tr) THEN bk
    ELSE linkFrom(tr,
             IF tr[p + 1] # NilMap
             THEN linkState(tr, bk, p, BucketsRange(tr[p + 1].buckets)) ELSE bk,
             p + 1)

\* Builder.link
link(b) ==
    [b EXCEPT !.backoff =
        linkFrom(b.transitions,
                 linkEmpty(BucketsRange(b.transitions[STATE_EMPTY + 1].buckets), b.backoff),
                 STATE_EMPTY + 1)]

\* A mutant of pruneFrom: no state is pruned.
RECURSIVE pruneFrom_KeepAll(_, _, _, _)
pruneFrom_KeepAll(tr, o, nextId, oldToNew) ==
    IF o >= Len(tr) THEN [oldToNew |-> oldToNew, numStates |-> nextId]
    ELSE pruneFrom_KeepAll(tr, o + 1, nextId + 1, Append(oldToNew, nextId))

\* A mutant of pruneFrom: the test reads the map of the state before o.
RECURSIVE pruneFrom_Shifted(_, _, _, _)
pruneFrom_Shifted(tr, o, nextId, oldToNew) ==
    IF o >= Len(tr) THEN [oldToNew |-> oldToNew, numStates |-> nextId]
    ELSE IF tr[o] # NilMap
         THEN pruneFrom_Shifted(tr, o + 1, nextId + 1, Append(oldToNew, nextId))
         ELSE pruneFrom_Shifted(tr, o + 1, nextId, Append(oldToNew, STATE_NIL))

\* Builder.prune: oldToNew, and numStates.
RECURSIVE pruneFrom(_, _, _, _)
pruneFrom(tr, o, nextId, oldToNew) ==
    IF o >= Len(tr) THEN [oldToNew |-> oldToNew, numStates |-> nextId]
    ELSE IF tr[o + 1] # NilMap
         THEN pruneFrom(tr, o + 1, nextId + 1, Append(oldToNew, nextId))
         ELSE pruneFrom(tr, o + 1, nextId, Append(oldToNew, STATE_NIL))

prune(b) ==
    pruneFrom(b.transitions, STATE_START + 1, STATE_START + 1, <<STATE_EMPTY, STATE_START>>)

\* A mutant of PreWalk: the back-off weight of a pruned destination is not
\* added to the transition.
PreWalk_NoFold(b, oldToNew, v) ==
    IF v.State = STATE_NIL THEN v
    ELSE IF oldToNew[v.State + 1] # STATE_NIL
         THEN StateWeight(oldToNew[v.State + 1], v.Weight)
         ELSE StateWeight(oldToNew[b.backoff[v.State + 1].State + 1], v.Weight)

\* A mutant of PreWalk: every destination is replaced by its back-off state.
PreWalk_AlwaysBackOff(b, oldToNew, v) ==
    IF v.State = STATE_NIL THEN v
    ELSE StateWeight(oldToNew[b.backoff[v.State + 1].State + 1],
                     WAdd(v.Weight, b.backoff[v.State + 1].Weight))

\* The pre-walk of one transition value, shared by moveHashed and moveSorted.
PreWalk(b, oldToNew, v) ==
    IF v.State = STATE_NIL THEN v
    ELSE IF oldToNew[v.State + 1] # STATE_NIL
         THEN StateWeight(oldToNew[v.State + 1], v.Weight)
         ELSE StateWeight(oldToNew[b.backoff[v.State + 1].State + 1],
                          WAdd(v.Weight, b.backoff[v.State + 1].Weight))

\* A mutant of MovedBackOff: the target keeps its old id.
MovedBackOff_NoRemap(b, oldToNew, o) == b.backoff[o + 1]

\* The back-off of old state o with its target renumbered.
MovedBackOff(b, oldToNew, o) ==
    IF b.backoff[o + 1].State # STATE_NIL
    THEN StateWeight(oldToNew[b.backoff[o + 1].State + 1], b.backoff[o + 1].Weight)
    ELSE b.backoff[o + 1]

\* The old ids that survive, in increasing order (new ids are assigned in
\* that order, so the n-th survivor is new state n-1).
RECURSIVE SurvivorsFrom(_, _)
SurvivorsFrom(oldToNew, o) ==
    IF o >= Len(oldToNew) THEN <<>>
    ELSE IF oldToNew[o + 1] # STATE_NIL THEN <<o>> \o SurvivorsFrom(oldToNew, o + 1)
    ELSE SurvivorsFrom(oldToNew, o + 1)

Survivors(oldToNew) == SurvivorsFrom(oldToNew, 0)

\* scale is given in halves: scale2 = 2 * scale.
DefaultScale2 == 3

\* A moveHashed that replaces only a scale below 1.
moveHashed_BelowOne(b, oldToNew, numStates, scale2) ==
    LET sc == IF scale2 < 2 THEN DefaultScale2 ELSE scale2
        surv == Survivors(oldToNew)
        Buckets(o) ==
            LET next0 == IF b.transitions[o + 1] = NilMap THEN newXqwMap(0, 0)
                         ELSE b.transitions[o + 1]
                next == MapResize(next0, (MapSize(next0) * sc) \div 2)
                backoff == MovedBackOff(b, oldToNew, o)
            IN  [j \in 1..Len(next.buckets) |->
                    IF next.buckets[j].Key # WORD_NIL
                    THEN xqwEntry(next.buckets[j].Key,
                                  PreWalk(b, oldToNew, next.buckets[j].Value))
                    ELSE xqwEntry(next.buckets[j].Key, backoff)]
    IN  [kind |-> "hashed", vocab |-> b.vocab, bos |-> b.bos, eos |-> b.eos,
         bosId |-> b.bosId, eosId |-> b.eosId,
         transitions |-> [n \in 1..numStates |-> Buckets(surv[n])]]

\* Builder.moveHashed
moveHashed(b, oldToNew, numStates, scale2) ==
    LET sc == IF scale2 <= 2 THEN DefaultScale2 ELSE scale2
        surv == Survivors(oldToNew)
        Buckets(o) ==
            LET next0 == IF b.transitions[o + 1] = NilMap THEN newXqwMap(0, 0)
                         ELSE b.transitions[o + 1]
                next == MapResize(next0, (MapSize(next0) * sc) \div 2)
                backoff == MovedBackOff(b, oldToNew, o)
            IN  [j \in 1..Len(next.buckets) |->
                    IF next.buckets[j].Key # WORD_NIL
                    THEN xqwEntry(next.buckets[j].Key,
                                  PreWalk(b, oldToNew, next.buckets[j].Value))
                    ELSE xqwEntry(next.buckets[j].Key, backoff)]
    IN  [kind |-> "hashed", vocab |-> b.vocab, bos |-> b.bos, eos |-> b.eos,
         bosId |-> b.bosId, eosId |-> b.eosId,
         transitions |-> [n \in 1..numStates |-> Buckets(surv[n])]]

\* sort.Sort(byWord(next)): the keys are distinct, so the order is unique.
RECURSIVE InsertByWord(_, _, _)
InsertByWord(sorted, e, i) ==
    IF i > Len(sorted) THEN Append(sorted, e)
    ELSE IF e.Word < sorted[i].Word
         THEN SubSeq(sorted, 1, i - 1) \o <<e>> \o SubSeq(sorted, i, Len(sorted))
         ELSE InsertByWord(sorted, e, i + 1)

\* A mutant of SortByWordFrom: the last element is left where it is put.
RECURSIVE SortByWordFrom_LastUnsorted(_, _, _)
SortByWordFrom_LastUnsorted(s, i, sorted) ==
    IF i > Len(s) THEN sorted
    ELSE IF i = Len(s) THEN <<s[i]>> \o sorted
    ELSE SortByWordFrom_LastUnsorted(s, i + 1, InsertByWord(sorted, s[i], 1))

RECURSIVE SortByWordFrom(_, _, _)
SortByWordFrom(s, i, sorted) ==
    IF i > Len(s) THEN sorted ELSE SortByWordFrom(s, i + 1, InsertByWord(sorted, s[i], 1))

SortByWord(s) == SortByWordFrom(s, 1, <<>>)

\* Builder.moveSorted
moveSorted(b, oldToNew, numStates) ==
    LET surv == Survivors(oldToNew)
        Next(o) ==
            LET es == IF b.transitions[o + 1] = NilMap THEN <<>>
                      ELSE BucketsRange(b.transitions[o + 1].buckets)
                lex == [j \in 1..Len(es) |->
                           LET v == PreWalk(b, oldToNew, es[j].Value)
                           IN  WordStateWeight(es[j].Key, v.State, v.Weight)]
                backoff == MovedBackOff(b, oldToNew, o)
            IN  SortByWord([j \in 1..Len(es) + 1 |->
                    IF j <= Len(es) THEN lex[j]
                    ELSE WordStateWeight(WORD_NIL, backoff.State, backoff.Weight)])
    IN  [kind |-> "sorted", vocab |-> b.vocab, bos |-> b.bos, eos |-> b.eos,
         bosId |-> b.bosId, eosId |-> b.eosId,
         transitions |-> [n \in 1..numStates |-> Next(surv[n])]]

\* Builder.DumpHashed and Builder.DumpSorted
DumpHashed(b, scale2) ==
    LET l == link(b)
        pr == prune(l)
    IN  moveHashed(l, pr.oldToNew, pr.numStates, scale2)

DumpSorted(b) ==
    LET l == link(b)
        pr == prune(l)
    IN  moveSorted(l, pr.oldToNew, pr.numStates)

\* What the move leaves of the Builder: its data are stolen or freed.
DumpedBuilder(b) == [b EXCEPT !.vocab = NilVocab, !.transitions = <<>>, !.backoff = <<>>]

\* ------------------------------------------------------------------------
\* The compiled models (hashed.go, sorted.go).  A query returns the record
\* [State, Weight, hops]; hops counts the back-off steps taken and is not
\* part of the program's result.  A query whose loop never ends returns
\* Diverged.

Diverged == [State |-> STATE_NIL, Weight |-> 0, hops |-> -1]

NumStates(m) == Len(m.transitions)

Start(m) == STATE_START

\* A mutant of HashedNextFrom: a miss in _STATE_EMPTY returns the weight
\* accumulated on the way.
RECURSIVE HashedNextFrom_KeepWeight(_, _, _, _, _)
HashedNextFrom_KeepWeight(m, p, i, w, hops) ==
    LET b == m.transitions[p + 1]
        next == b[BucketsFindEntry(b, i)]
    IN  IF next.Key = WORD_NIL /\ p # STATE_EMPTY
        THEN IF hops > NumStates(m) THEN Diverged
             ELSE HashedNextFrom_KeepWeight(m, next.Value.State, i,
                                            WAdd(w, next.Value.Weight), hops + 1)
        ELSE IF next.Key # WORD_NIL
             THEN [State |-> next.Value.State, Weight |-> WAdd(w, next.Value.Weight),
                   hops |-> hops]
             ELSE [State |-> STATE_EMPTY, Weight |-> w, hops |-> hops]

\* A loop that adds the back-off weight before and after it moves.
RECURSIVE HashedNextFrom_AddTwice(_, _, _, _, _)
HashedNextFrom_AddTwice(m, p, i, w, hops) ==
    LET b == m.transitions[p + 1]
        next == b[BucketsFindEntry(b, i)]
    IN  IF next.Key = WORD_NIL /\ p # STATE_EMPTY
        THEN IF hops > NumStates(m) THEN Diverged
             ELSE HashedNextFrom_AddTwice(m, next.Value.State, i,
                      WAdd(WAdd(w, next.Value.Weight), next.Value.Weight), hops + 1)
        ELSE IF next.Key # WORD_NIL
             THEN [State |-> next.Value.State, Weight |-> WAdd(w, next.Value.Weight),
                   hops |-> hops]
             ELSE [State |-> STATE_EMPTY, Weight |-> WEIGHT_LOG0, hops |-> hops]

\* Hashed.NextI: the loop, from the entry found in state p.
RECURSIVE HashedNextFrom(_, _, _, _, _)
HashedNextFrom(m, p, i, w, hops) ==
    LET b == m.transitions[p + 1]
        next == b[BucketsFindEntry(b, i)]
    IN  IF next.Key = WORD_NIL /\ p # STATE_EMPTY
        THEN IF hops > NumStates(m) THEN Diverged
             ELSE HashedNextFrom(m, next.Value.State, i, WAdd(w, next.Value.Weight), hops + 1)
        ELSE IF next.Key # WORD_NIL
             THEN [State |-> next.Value.State, Weight |-> WAdd(w, next.Value.Weight),
                   hops |-> hops]
             ELSE [State |-> STATE_EMPTY, Weight |-> WEIGHT_LOG0, hops |-> hops]

HashedNextI(m, p, i) == HashedNextFrom(m, p, i, 0, 0)

HashedBackOff(m, p) ==
    IF p = STATE_EMPTY THEN StateWeight(STATE_NIL, 0)
    ELSE LET b == m.transitions[p + 1]
         IN  b[BucketsFindEntry(b, WORD_NIL)].Value

\* A mutant of findNextIn: the search stops one entry short of the upper half.
RECURSIVE findNextIn_SkipMid(_, _, _, _)
findNextIn_SkipMid(next, x, l, h) ==
    IF l < h
    THEN LET mid == l + ((h - l) \div 2)
             xMid == next[mid + 1].Word
         IN  IF xMid < x THEN findNextIn_SkipMid(next, x, mid + 1, h)
             ELSE IF xMid > x THEN findNextIn_SkipMid(next, x, l, mid - 1)
             ELSE next[mid + 1]
    ELSE next[Len(next)]

\* Sorted.findNext: binary search over [l, h) (0-based), else the last entry.
RECURSIVE findNextIn(_, _, _, _)
findNextIn(next, x, l, h) ==
    IF l < h
    THEN LET mid == l + ((h - l) \div 2)
             xMid == next[mid + 1].Word
         IN  IF xMid < x THEN findNextIn(next, x, mid + 1, h)
             ELSE IF xMid > x THEN findNextIn(next, x, l, mid)
             ELSE next[mid + 1]
    ELSE next[Len(next)]

findNext(m, p, x) == findNextIn(m.transitions[p + 1], x, 0, Len(m.transitions[p + 1]))

\* Sorted.NextI
RECURSIVE SortedNextFrom(_, _, _, _, _)
SortedNextFrom(m, p, x, w, hops) ==
    LET next == findNext(m, p, x)
    IN  IF next.Word = WORD_NIL /\ p # STATE_EMPTY
        THEN IF hops > NumStates(m) THEN Diverged
             ELSE SortedNextFrom(m, next.State, x, WAdd(w, next.Weight), hops + 1)
        ELSE IF next.Word # WORD_NIL
             THEN [State |-> next.State, Weight |-> WAdd(w, next.Weight), hops |-> hops]
             ELSE [State |-> STATE_EMPTY, Weight |-> WEIGHT_LOG0, hops |-> hops]

SortedNextI(m, p, x) == SortedNextFrom(m, p, x, 0, 0)

SortedBackOff(m, p) ==
    IF p = STATE_EMPTY THEN StateWeight(STATE_NIL, 0)
    ELSE LET next == m.transitions[p + 1]
         IN  StateWeight(next[Len(next)].State, next[Len(next)].Weight)

\* The Model interface (basic.go), dispatched on the flavor.
NextI(m, p, x) == IF m.kind = "hashed" THEN HashedNextI(m, p, x) ELSE SortedNextI(m, p, x)

NextS(m, p, s) == NextI(m, p, IdOf(m.vocab, s))

Final(m, p) == NextI(m, p, m.eosId).Weight

BackOff(m, p) == IF m.kind = "hashed" THEN HashedBackOff(m, p) ELSE SortedBackOff(m, p)

\* IterableModel.Transitions: the non-back-off transitions of p.
Transitions(m, p) ==
    IF m.kind = "hashed"
    THEN LET es == BucketsRange(m.transitions[p + 1])
         IN  [j \in 1..Len(es) |->
                 WordStateWeight(es[j].Key, es[j].Value.State, es[j].Value.Weight)]
    ELSE SubSeq(m.transitions[p + 1], 1, Len(m.transitions[p + 1]) - 1)

\* ------------------------------------------------------------------------
\* Binary files.  A file is the record of its sections in the order they are
\* written: the magic, the varint field with the header's length, the gob
\* header, the padding and the flat array of entries.  The gob encoding of
\* the header is not rebuilt byte by byte: its length is taken as one byte
\* for each encoded item, which lets the padding take every value.

MODEL_HASHED == 0
MODEL_SORTED == 1
MAGIC_HASHED == "#fslm.hash"
MAGIC_SORTED == "#fslm.sort"
MagicLen == 10
MaxVarintLen64 == 10
EntryAlign == 4
EntrySize == 12

GobLen(h) == 3 + Len(h.vocab) + Len(h.counts)

\* Hashed.header: the vocabulary, bos, eos and the number of buckets of
\* each state.
HashedHeader(m) ==
    [vocab |-> m.vocab.id2str, bos |-> m.bos, eos |-> m.eos,
     counts |-> [i \in 1..Len(m.transitions) |-> Len(m.transitions[i])]]

\* Sorted.header: the counts leave out the back-off entry of each state.
SortedHeader(m) ==
    [vocab |-> m.vocab.id2str, bos |-> m.bos, eos |-> m.eos,
     counts |-> [i \in 1..NumStates(m) |-> Len(m.transitions[i]) - 1]]

RECURSIVE EntriesBefore(_, _)
EntriesBefore(transitions, i) ==
    IF i = 0 THEN 0 ELSE EntriesBefore(transitions, i - 1) + Len(transitions[i])

\* The loop "for _, i := range m.transitions { w.Write(bytes) }".
FlatEntries(transitions) ==
    [k \in 1..EntriesBefore(transitions, Len(transitions)) |->
        LET i == CHOOSE n \in 1..Len(transitions) :
                     EntriesBefore(transitions, n - 1) < k /\ k <= EntriesBefore(transitions, n)
        IN  transitions[i][k - EntriesBefore(transitions, i - 1)]]

WriteSections(magic, header, transitions) ==
    LET written == MagicLen + MaxVarintLen64 + GobLen(header)
    IN  [magic |-> magic, headerLen |-> GobLen(header), header |-> header,
         padding |-> EntryAlign - (written % EntryAlign),
         entries |-> FlatEntries(transitions)]

HashedWriteBinary(m) == WriteSections(MAGIC_HASHED, HashedHeader(m), m.transitions)

SortedWriteBinary(m) == WriteSections(MAGIC_SORTED, SortedHeader(m), m.transitions)

\* len(raw)
FileLen(f) ==
    MagicLen + MaxVarintLen64 + f.headerLen + f.padding + EntrySize * Len(f.entries)

ParseError(msg) == [err |-> msg]

\* parseHeader: the vocabulary is decoded, and the ids of bos and eos are
\* looked up again.
parseHeader(h) ==
    LET vocab == Vocab(h.vocab)
    IN  IF IdOf(vocab, h.bos) = WORD_NIL THEN ParseError("bos not in vocabulary")
        ELSE IF IdOf(vocab, h.eos) = WORD_NIL THEN ParseError("eos not in vocabulary")
        ELSE [err |-> "", vocab |-> vocab, bos |-> h.bos, eos |-> h.eos,
              bosId |-> IdOf(vocab, h.bos), eosId |-> IdOf(vocab, h.eos),
              counts |-> h.counts]

\* The offset at which the reader takes the entries to begin.
EntriesAt(f) ==
    LET read == MagicLen + MaxVarintLen64 + f.headerLen
    IN  read + EntryAlign - (read % EntryAlign)

\* The value of low when the slicing loop of Hashed reaches state i.
RECURSIVE HashedLow(_, _)
HashedLow(numBuckets, i) ==
    IF i = 1 THEN 0 ELSE HashedLow(numBuckets, i - 1) + numBuckets[i - 1]

\* A mutant of SortedLow: low advances without the back-off entry.
RECURSIVE SortedLow_NoBackOff(_, _)
SortedLow_NoBackOff(numTransitions, i) ==
    IF i = 1 THEN 0 ELSE SortedLow_NoBackOff(numTransitions, i - 1) + numTransitions[i - 1]

\* The value of low when the slicing loop of Sorted reaches state i.
RECURSIVE SortedLow(_, _)
SortedLow(numTransitions, i) ==
    IF i = 1 THEN 0 ELSE SortedLow(numTransitions, i - 1) + numTransitions[i - 1] + 1

HashedUnsafeParseBinary(f) ==
    IF f.magic # MAGIC_HASHED THEN ParseError("not a FSLM binary file")
    ELSE LET hd == parseHeader(f.header)
         IN  IF hd.err # "" THEN hd
             ELSE IF (FileLen(f) - EntriesAt(f)) % EntrySize # 0
                  THEN ParseError("number of left-over bytes are not a multiple of 12")
             ELSE [err |-> "",
                   model |-> [kind |-> "hashed", vocab |-> hd.vocab, bos |-> hd.bos,
                              eos |-> hd.eos, bosId |-> hd.bosId, eosId |-> hd.eosId,
                              transitions |->
                                  [i \in 1..Len(hd.counts) |->
                                      [j \in 1..hd.counts[i] |->
                                          f.entries[HashedLow(hd.counts, i) + j]]]]]

SortedUnsafeParseBinary(f) ==
    IF f.magic # MAGIC_SORTED THEN ParseError("not a FSLM binary file")
    ELSE LET hd == parseHeader(f.header)
         IN  IF hd.err # "" THEN hd
             ELSE IF (FileLen(f) - EntriesAt(f)) % EntrySize # 0
                  THEN ParseError("number of left-over bytes are not a multiple of 12")
             ELSE [err |-> "",
                   model |-> [kind |-> "sorted", vocab |-> hd.vocab, bos |-> hd.bos,
                              eos |-> hd.eos, bosId |-> hd.bosId, eosId |-> hd.eosId,
                              transitions |->
                                  [i \in 1..Len(hd.counts) |->
                                      [j \in 1..hd.counts[i] + 1 |->
                                          f.entries[SortedLow(hd.counts, i) + j]]]]]

IsHashedBinary(f) == f.magic = MAGIC_HASHED

IsSortedBinary(f) == f.magic = MAGIC_SORTED

NilModel == [kind |-> "nil"]

\* FromBinary: the kind, the model and the error.
FromBinary(f) ==
    IF IsHashedBinary(f)
    THEN LET r == HashedUnsafeParseBinary(f)
         IN  IF r.err # "" THEN [kind |-> -1, model |-> NilModel, err |-> r.err]
             ELSE [kind |-> MODEL_HASHED, model |-> r.model, err |-> ""]
    ELSE IF IsSortedBinary(f)
    THEN LET r == SortedUnsafeParseBinary(f)
         IN  IF r.err # "" THEN [kind |-> -1, model |-> NilModel, err |-> r.err]
             ELSE [kind |-> MODEL_SORTED, model |-> r.model, err |-> ""]
    ELSE [kind |-> -1, model |-> NilModel, err |-> "not an FSLM file"]

\* ------------------------------------------------------------------------
\* The state machine: a Builder receives AddNgram calls and is then dumped
\* into a Hashed or a Sorted model.

\* Bounds of the exploration.
MaxNgrams == 2
MaxContextLen == 2

Letters == {"a", "b"}
ContextWords == Letters \cup {"<s>", "</s>"}
NgramWords == Letters \cup {"<s>", "</s>"}
Weights == {-1, -100}
BackOffs == {-2}
Scales2 == {0, 2, 4, 5}
\* The vocabularies a Builder is constructed with: none, or one in which
\* <s> and </s> have other ids than in the default vocabulary.
BaseVocabs == {NilVocab, NewVocab(<<"</s>", "<unk>", "<s>">>)}

RECURSIVE SeqsUpTo(_, _)
SeqsUpTo(S, n) ==
    IF n = 0 THEN {<<>>}
    ELSE LET shorter == SeqsUpTo(S, n - 1)
         IN  shorter \cup {Append(s, x) : s \in shorter, x \in S}

Contexts == SeqsUpTo(ContextWords, MaxContextLen)

VARIABLES
    outside,    \* the vocabulary NewBuilder was given (NilVocab for nil)
    builder,    \* the Builder
    model,      \* the compiled model, NoModel before the dump
    pc,         \* "build", "dumped", "written", "loaded" or "fatal" (aborted)
    added,      \* history: the AddNgram calls that returned, in order
    file,       \* the binary file, NoFile before WriteBinary
    loaded,     \* what FromBinary returned, NotLoaded before the call
    threads,    \* the query each thread is in, by thread
    heap,       \* the Vocab objects with the slices and maps they point to
    xmap,       \* a map[word.Id]StateWeight under insertion
    aborted,    \* the AddNgram call that glog.Fatalf ended, NoCall before
    os          \* the open file descriptors and mapped regions of the process

vars == <<outside, builder, model, pc, added, file, loaded, threads, heap, xmap, aborted,
          os>>

NoModel == [kind |-> "none"]

NoFile == [magic |-> ""]

NotLoaded == [kind |-> -1, model |-> NilModel, err |-> "not called"]

\* The threads that query a compiled model, and a thread between two calls.
Threads == {1, 2}

Idle == [at |-> "idle"]

NoThreads == [t \in Threads |-> Idle]

NoCall == [context |-> <<>>, word |-> ""]

\* The process holds no descriptor and no mapping; calls are the system calls
\* of the last MappedFile.Close and err is what it returned.
NoResources == [fds |-> {}, mapped |-> {}, calls |-> <<>>, err |-> ""]

\* No Vocab object has been allocated.
NoHeap == [arrays |-> <<>>, maps |-> <<>>, vocabs |-> <<>>, call |-> [op |-> "none"]]

Ngram(context, word, weight, backOff) ==
    [context |-> context, word |-> word, weight |-> weight, backOff |-> backOff]

Init ==
    /\ outside \in BaseVocabs
    /\ builder = NewBuilder(outside, "<s>", "</s>")
    /\ model = NoModel
    /\ pc = "build"
    /\ added = <<>>
    /\ file = NoFile
    /\ loaded = NotLoaded
    /\ threads = NoThreads
    /\ heap = NoHeap
    /\ xmap = NilMap
    /\ aborted = NoCall
    /\ os = NoResources

DoAddNgram ==
    /\ pc = "build"
    /\ Len(added) < MaxNgrams
    /\ \E context \in Contexts, word \in NgramWords, weight \in Weights, backOff \in BackOffs :
          /\ ~AddNgramFatal(builder, context, word)
          /\ builder' = AddNgram(builder, context, word, weight, backOff)
          /\ added' = Append(added, Ngram(context, word, weight, backOff))
    /\ UNCHANGED <<outside, model, pc, file, loaded, threads, heap, xmap, aborted, os>>

DoAddNgramFatal ==
    /\ pc = "build"
    /\ Len(added) < MaxNgrams
    /\ \E context \in Contexts, word \in NgramWords :
          /\ AddNgramFatal(builder, context, word)
          /\ builder' = AddNgramAborted(builder, context, word)
          /\ aborted' = [context |-> context, word |-> word]
    /\ pc' = "fatal"
    /\ UNCHANGED <<outside, model, added, file, loaded, threads, heap, xmap, os>>

DoDumpHashed ==
    /\ pc = "build"
    /\ \E scale2 \in Scales2 : model' = DumpHashed(builder, scale2)
    /\ builder' = DumpedBuilder(builder)
    /\ pc' = "dumped"
    /\ UNCHANGED <<outside, added, file, loaded, threads, heap, xmap, aborted, os>>

DoDumpSorted ==
    /\ pc = "build"
    /\ model' = DumpSorted(builder)
    /\ builder' = DumpedBuilder(builder)
    /\ pc' = "dumped"
    /\ UNCHANGED <<outside, added, file, loaded, threads, heap, xmap, aborted, os>>

DoWriteBinary ==
    /\ pc = "dumped"
    /\ file' = IF model.kind = "hashed" THEN HashedWriteBinary(model)
               ELSE SortedWriteBinary(model)
    /\ pc' = "written"
    /\ UNCHANGED <<outside, builder, model, added, loaded, threads, heap, xmap, aborted, os>>

DoFromBinary ==
    /\ pc = "written"
    /\ loaded' = FromBinary(file)
    /\ pc' = "loaded"
    /\ UNCHANGED <<outside, builder, model, added, file, threads, heap, xmap, aborted, os>>

Next ==
    \/ DoAddNgram
    \/ DoAddNgramFatal
    \/ DoDumpHashed
    \/ DoDumpSorted
    \/ DoWriteBinary
    \/ DoFromBinary

Spec == Init /\ [][Next]_vars

\* ------------------------------------------------------------------------
\* The back-off rule of an n-gram model, on the n-grams themselves.  The
\* reference trie maps a word sequence to the weight and back-off weight of
\* its entry; it is built from the history of AddNgram calls and shares
\* nothing with the Builder's tables.

Log0(w) == IF w <= textLog0 THEN WEIGHT_LOG0 ELSE w

RefEntry(w, bow) == [w |-> w, bow |-> bow]

\* The entries before any call: the context <s>, created with the Builder.
RefInit == [k \in {<<"<s>">>} |-> RefEntry(0, 0)]

\* The trie after one more n-gram: missing context prefixes appear with
\* weight 0 and back-off 0, the entry itself takes the given weights.
RefAdd(trie, ng) ==
    LET key == Append(ng.context, ng.word)
        prefixes == {SubSeq(ng.context, 1, i) : i \in 1..Len(ng.context)}
        Old(k) == IF k \in DOMAIN trie THEN trie[k] ELSE RefEntry(0, 0)
    IN  [k \in DOMAIN trie \cup prefixes \cup {key} |->
            IF k = key
            THEN RefEntry(Log0(ng.weight),
                          IF ng.word = "</s>" THEN Old(k).bow ELSE Log0(ng.backOff))
            ELSE Old(k)]

RECURSIVE RefTrieFrom(_, _, _)
RefTrieFrom(ngrams, i, trie) ==
    IF i > Len(ngrams) THEN trie ELSE RefTrieFrom(ngrams, i + 1, RefAdd(trie, ngrams[i]))

RefTrie(ngrams) == RefTrieFrom(ngrams, 1, RefInit)

DropFirst(c) == SubSeq(c, 2, Len(c))

\* log p(x | c): the entry of the longest suffix of c that has one for x,
\* plus the back-off weight of every longer suffix that is a context.
RECURSIVE RefWeight(_, _, _, _)
RefWeight(trie, c, x, acc) ==
    IF Append(c, x) \in DOMAIN trie THEN WAdd(acc, trie[Append(c, x)].w)
    ELSE IF c = <<>> THEN WEIGHT_LOG0
    ELSE RefWeight(trie, DropFirst(c), x,
                   IF c \in DOMAIN trie THEN WAdd(acc, trie[c].bow) ELSE acc)

\* The score of sentence sent (without its </s>) after the words of hist.
RECURSIVE RefScoreFrom(_, _, _, _)
RefScoreFrom(trie, hist, sent, i) ==
    IF i > Len(sent) THEN RefWeight(trie, hist, "</s>", 0)
    ELSE WAdd(RefWeight(trie, hist, sent[i], 0),
              RefScoreFrom(trie, Append(hist, sent[i]), sent, i + 1))

RefScore(trie, sent) == RefScoreFrom(trie, <<"<s>">>, sent, 1)

\* sentTest (fslm.go): the sum of the weights of walking the model from
\* Start over the words of sent and ending with Final.
RECURSIVE WalkFrom(_, _, _, _)
WalkFrom(m, p, sent, i) ==
    IF i > Len(sent) THEN Final(m, p)
    ELSE LET r == NextS(m, p, sent[i])
         IN  WAdd(r.Weight, WalkFrom(m, r.State, sent, i + 1))

ModelScore(m, sent) == WalkFrom(m, Start(m), sent, 1)

\* The words of the queries: the letters of the n-grams and one word that no
\* n-gram contains.
MaxSentenceLen == 3
QueryWords == Letters \cup {"c"}
Sentences == SeqsUpTo(QueryWords, MaxSentenceLen)

\* C1: the weights of walking the compiled model over a sentence sum to the
\* sentence's score under the back-off rule on the n-grams that were added.
C1_ScoreIsBackOffScore ==
    pc = "dumped" =>
        \A trie \in {RefTrie(added)} :
            \A sent \in Sentences : ModelScore(model, sent) = RefScore(trie, sent)

\* A sentence whose score is finite and contains at least two back-off
\* weights (the input weights are -1 and the back-off weights -2).
C1_Witness ==
    /\ pc = "dumped"
    /\ \E sent \in Sentences :
          /\ RefScore(RefTrie(added), sent) # WEIGHT_LOG0
          /\ RefScore(RefTrie(added), sent) <= -4
          /\ ModelScore(model, sent) = RefScore(RefTrie(added), sent)

\* ------------------------------------------------------------------------
\* Views of a compiled model used by the properties.

States(m) == 0..(NumStates(m) - 1)

\* Every assigned word id, one id that is not assigned, and word.NIL.
QueryIds(v) == (0..Bound(v)) \cup {WORD_NIL}

HasTransition(m, p, x) ==
    \E i \in 1..Len(Transitions(m, p)) : Transitions(m, p)[i].Word = x

\* The states on p's back-off chain, p included.
RECURSIVE BackOffChain(_, _, _)
BackOffChain(m, p, fuel) ==
    IF p \notin States(m) THEN {}
    ELSE IF p = STATE_EMPTY \/ fuel = 0 THEN {p}
    ELSE {p} \cup BackOffChain(m, BackOff(m, p).State, fuel - 1)

RECURSIVE ReachesEmpty(_, _, _)
ReachesEmpty(m, p, fuel) ==
    IF p = STATE_EMPTY THEN TRUE
    ELSE IF fuel = 0 \/ p \notin States(m) THEN FALSE
    ELSE ReachesEmpty(m, BackOff(m, p).State, fuel - 1)

\* The states one lexical transition or one back-off edge away from p.
Successors(m, p) ==
    ({Transitions(m, p)[i].State : i \in 1..Len(Transitions(m, p))}
        \cup {BackOff(m, p).State}) \cap States(m)

RECURSIVE ReachableFrom(_, _)
ReachableFrom(m, seen) ==
    LET more == seen \cup UNION {Successors(m, p) : p \in seen}
    IN  IF more = seen THEN seen ELSE ReachableFrom(m, more)

\* The weights returned token by token, the last one by Final.
RECURSIVE TokenWeightsFrom(_, _, _, _)
TokenWeightsFrom(m, p, sent, i) ==
    IF i > Len(sent) THEN <<Final(m, p)>>
    ELSE LET r == NextS(m, p, sent[i])
         IN  <<r.Weight>> \o TokenWeightsFrom(m, r.State, sent, i + 1)

TokenWeights(m, sent) == TokenWeightsFrom(m, Start(m), sent, 1)

\* The Builder after the calls of ngrams on a Builder made for vocabulary v.
RECURSIVE BuildFrom(_, _, _)
BuildFrom(b, ngrams, i) ==
    IF i > Len(ngrams) THEN b
    ELSE BuildFrom(AddNgram(b, ngrams[i].context, ngrams[i].word,
                            ngrams[i].weight, ngrams[i].backOff), ngrams, i + 1)

Build(v, ngrams) == BuildFrom(NewBuilder(v, "<s>", "</s>"), ngrams, 1)

Orders(seq) ==
    {[i \in 1..Len(seq) |-> seq[f[i]]] :
        f \in {g \in [1..Len(seq) -> 1..Len(seq)] :
                  \A i, j \in 1..Len(seq) : g[i] = g[j] => i = j}}

DistinctNgrams(seq) ==
    \A i, j \in 1..Len(seq) :
        (seq[i].context = seq[j].context /\ seq[i].word = seq[j].word) => i = j

\* The number of states of the n-gram trie: the empty context and every
\* entry that does not end in </s>.
RefNumStates(trie) == 1 + Cardinality({k \in DOMAIN trie : k[Len(k)] # "</s>"})

\* ------------------------------------------------------------------------
\* Two models answer every query alike.
SameQueries(h, so, v) ==
    /\ NumStates(h) = NumStates(so)
    /\ \A p \in States(h) :
          /\ \A x \in QueryIds(v) :
                /\ HashedNextI(h, p, x).State = SortedNextI(so, p, x).State
                /\ HashedNextI(h, p, x).Weight = SortedNextI(so, p, x).Weight
          /\ Final(h, p) = Final(so, p)
          /\ BackOff(h, p) = BackOff(so, p)

\* C2: dumping the same Builder as a Hashed and as a Sorted model gives the
\* same number of states and, for every state and word id, the same NextI,
\* Final and BackOff.
C2_HashedSortedAgree ==
    pc = "build" =>
        \A so \in {DumpSorted(builder)} :
            \A h \in {DumpHashed(builder, scale2) : scale2 \in Scales2} :
                SameQueries(h, so, builder.vocab)

\* Both flavors answer a query that backs off and then finds the word.
C2_Witness ==
    /\ pc = "build"
    /\ Len(added) = MaxNgrams
    /\ LET h == DumpHashed(builder, 0)
           so == DumpSorted(builder)
       IN  /\ NumStates(h) >= 4
           /\ \E p \in States(h), x \in QueryIds(builder.vocab) :
                 /\ HashedNextI(h, p, x).hops >= 1
                 /\ HashedNextI(h, p, x).Weight # WEIGHT_LOG0
                 /\ HashedNextI(h, p, x).Weight = SortedNextI(so, p, x).Weight

\* Two models have as many states and weigh every sentence alike.
SameLanguage(m1, m2) ==
    /\ NumStates(m1) = NumStates(m2)
    /\ \A sent \in Sentences : TokenWeights(m1, sent) = TokenWeights(m2, sent)

\* C3: n-grams with distinct (context, word) pairs give, in every order of
\* the calls, models with the same number of states and the same weights
\* token by token for every sentence.  The order in which the calls were
\* made is compared with every other order.
C3_OrderIndependent ==
    (pc = "build" /\ DistinctNgrams(added)) =>
        \A h \in {DumpHashed(builder, 0)}, so \in {DumpSorted(builder)} :
            \A b2 \in {Build(outside, perm) : perm \in Orders(added) \ {added}} :
                /\ \A h2 \in {DumpHashed(b2, 0)} : SameLanguage(h, h2)
                /\ \A so2 \in {DumpSorted(b2)} : SameLanguage(so, so2)

\* Two calls whose order matters to the Builder's tables: the second word of
\* one is new to the vocabulary, and the states are numbered differently.
C3_Witness ==
    /\ pc = "build"
    /\ Len(added) = MaxNgrams
    /\ DistinctNgrams(added)
    /\ \E perm \in Orders(added) :
          /\ Build(outside, perm) # builder
          /\ Build(outside, perm).vocab # builder.vocab
          /\ NumStates(DumpSorted(builder)) >= 4
          /\ SameLanguage(DumpSorted(builder), DumpSorted(Build(outside, perm)))

\* C4: a model written with WriteBinary and loaded with FromBinary comes
\* back with the kind of its flavor, with every state's array as it was, and
\* with the same NextI and Final for every state and word id.
C4_BinaryRoundTrip ==
    pc = "loaded" =>
        /\ loaded.err = ""
        /\ loaded.kind = (IF model.kind = "hashed" THEN MODEL_HASHED ELSE MODEL_SORTED)
        /\ loaded.model.kind = model.kind
        /\ NumStates(loaded.model) = NumStates(model)
        /\ \A p \in States(model) :
              /\ loaded.model.transitions[p + 1] = model.transitions[p + 1]
              /\ Final(loaded.model, p) = Final(model, p)
              /\ \A x \in QueryIds(model.vocab) :
                    NextI(loaded.model, p, x) = NextI(model, p, x)

\* A Sorted model with a state of two lexical transitions was written and
\* loaded, and a query that backs off finds its word in the loaded model.
C4_Witness ==
    /\ pc = "loaded"
    /\ loaded.kind = MODEL_SORTED
    /\ NumStates(loaded.model) >= 4
    /\ \E p \in States(model) : Len(loaded.model.transitions[p + 1]) >= 3
    /\ \E p \in States(model), x \in QueryIds(model.vocab) :
          /\ NextI(loaded.model, p, x).hops >= 1
          /\ NextI(loaded.model, p, x).Weight # WEIGHT_LOG0
          /\ NextI(loaded.model, p, x) = NextI(model, p, x)

\* No state that NextI(p, x) may visit has a transition on x.
NoTransitionOnChain(m, p, x) ==
    \A s \in BackOffChain(m, p, NumStates(m)) \cup {STATE_EMPTY} : ~HasTransition(m, s, x)

\* C5: a word with no transition in p, in the states of p's back-off chain
\* or in the empty state gets exactly (STATE_EMPTY, WEIGHT_LOG0) from p.
C5_MissIsEmptyLog0 ==
    pc = "dumped" =>
        \A p \in States(model), x \in QueryIds(model.vocab) :
            NoTransitionOnChain(model, p, x) =>
                /\ NextI(model, p, x).State = STATE_EMPTY
                /\ NextI(model, p, x).Weight = WEIGHT_LOG0

\* A miss from a state whose back-off weight is not 0, which is discarded.
C5_Witness ==
    /\ pc = "dumped"
    /\ \E p \in States(model) \ {STATE_EMPTY}, x \in QueryIds(model.vocab) :
          /\ NoTransitionOnChain(model, p, x)
          /\ BackOff(model, p).Weight \notin {0, WEIGHT_LOG0}
          /\ NextI(model, p, x).hops >= 1
          /\ NextI(model, p, x).Weight = WEIGHT_LOG0

\* C6, as claimed: for a word other than <s> and </s>, NextI returns
\* WEIGHT_LOG0 exactly when the empty state has no transition on the word.
C6_Log0IffOOV ==
    pc = "dumped" =>
        \A p \in States(model), x \in QueryIds(model.vocab) \ {model.bosId, model.eosId} :
            (NextI(model, p, x).Weight = WEIGHT_LOG0) <=> ~HasTransition(model, STATE_EMPTY, x)

\* C7: BackOff(STATE_EMPTY) is STATE_NIL and the back-off edges lead from
\* every other state to STATE_EMPTY.
C7_BackOffReachesEmpty ==
    pc = "dumped" =>
        /\ BackOff(model, STATE_EMPTY).State = STATE_NIL
        /\ \A p \in States(model) \ {STATE_EMPTY} : ReachesEmpty(model, p, NumStates(model))

\* A state whose back-off chain has a state between it and STATE_EMPTY.
C7_Witness ==
    /\ pc = "dumped"
    /\ \E p \in States(model) \ {STATE_EMPTY} :
          /\ BackOff(model, p).State \in States(model) \ {STATE_EMPTY}
          /\ ReachesEmpty(model, p, NumStates(model))

\* C8, as claimed: a state without a transition on a word other than </s>
\* is STATE_START.
C8_NoLexicalIsStart ==
    pc = "dumped" =>
        \A p \in States(model) :
            (\A x \in QueryIds(model.vocab) \ {model.eosId} : ~HasTransition(model, p, x))
                => p = STATE_START

\* C8, amended: a state without any transition, </s> included, is
\* STATE_START.
C8_NoTransitionIsStart ==
    pc = "dumped" =>
        \A p \in States(model) : Transitions(model, p) = <<>> => p = STATE_START

\* States were pruned and STATE_START is kept without a transition.
C8_Witness ==
    /\ pc = "dumped"
    /\ RefNumStates(RefTrie(added)) > NumStates(model)
    /\ Transitions(model, STATE_START) = <<>>
    /\ NumStates(model) >= 3

\* C9: the back-off state of every state but STATE_EMPTY has a transition.
C9_BackOffTargetHasTransition ==
    pc = "dumped" =>
        \A p \in States(model) \ {STATE_EMPTY} :
            /\ BackOff(model, p).State \in States(model)
            /\ Transitions(model, BackOff(model, p).State) # <<>>

\* A back-off edge to a state other than STATE_EMPTY, in a model from which
\* states were pruned.
C9_Witness ==
    /\ pc = "dumped"
    /\ RefNumStates(RefTrie(added)) > NumStates(model)
    /\ \E p \in States(model) :
          /\ BackOff(model, p).State \in States(model) \ {STATE_EMPTY}
          /\ Transitions(model, BackOff(model, p).State) # <<>>

\* C10: every state is reached from STATE_START along lexical transitions
\* and back-off edges.
C10_AllReachableFromStart ==
    pc = "dumped" => ReachableFrom(model, {STATE_START}) = States(model)

\* A model with states two transitions deep, all of them reached.
C10_Witness ==
    /\ pc = "dumped"
    /\ NumStates(model) >= 5
    /\ RefNumStates(RefTrie(added)) > NumStates(model)
    /\ ReachableFrom(model, {STATE_START}) = States(model)

\* ------------------------------------------------------------------------
\* The transitions of a compiled model against the n-grams that were added.

\* The Builder's state for a context of the trie: the walk of findState
\* without the creation of states.
RECURSIVE StateOf(_, _, _)
StateOf(b, p, ws) ==
    IF ws = <<>> THEN p
    ELSE StateOf(b, MapFind(b.transitions[p + 1], IdOf(b.vocab, ws[1])).State, DropFirst(ws))

\* No entry of the trie extends k by one word.
RefLeaf(trie, k) == ~\E k2 \in DOMAIN trie : Len(k2) = Len(k) + 1 /\ SubSeq(k2, 1, Len(k)) = k

\* The longest suffix of s that is a context with an entry after it; the
\* empty context if there is none.
RECURSIVE RefBackTarget(_, _)
RefBackTarget(trie, s) ==
    IF s = <<>> THEN <<>>
    ELSE IF s \in DOMAIN trie /\ ~RefLeaf(trie, s) THEN s
    ELSE RefBackTarget(trie, DropFirst(s))

\* The back-off weights of the suffixes of s that are entries of the trie
\* but not contexts with an entry after them.
RECURSIVE RefSkipped(_, _)
RefSkipped(trie, s) ==
    IF s = <<>> THEN 0
    ELSE IF s \in DOMAIN trie /\ ~RefLeaf(trie, s) THEN 0
    ELSE WAdd(IF s \in DOMAIN trie THEN trie[s].bow ELSE 0,
              RefSkipped(trie, DropFirst(s)))

\* The state of the Builder a compiled transition for entry k leads to, and
\* its weight.  The context <s> is kept with or without an entry after it.
RefKept(trie, k) == ~RefLeaf(trie, k) \/ k = <<"<s>">>

RefDestination(trie, k) == IF RefKept(trie, k) THEN k ELSE RefBackTarget(trie, DropFirst(k))

RefFoldedWeight(trie, k) ==
    IF RefKept(trie, k) THEN trie[k].w
    ELSE WAdd(trie[k].w, WAdd(trie[k].bow, RefSkipped(trie, DropFirst(k))))

\* The transition of state p on word id x.
TransitionOn(m, p, x) ==
    Transitions(m, p)[CHOOSE i \in 1..Len(Transitions(m, p)) : Transitions(m, p)[i].Word = x]

\* Every entry of the trie is a transition of m with the folded weight and
\* the destination that survives.
FoldedTransitions(b, trie, m) ==
    \A oldToNew \in {prune(b).oldToNew} :
        \A k \in DOMAIN trie :
            LET c == SubSeq(k, 1, Len(k) - 1)
                x == IdOf(b.vocab, k[Len(k)])
                p == oldToNew[StateOf(b, STATE_EMPTY, c) + 1]
            IN  /\ p # STATE_NIL
                /\ HasTransition(m, p, x)
                /\ TransitionOn(m, p, x).Weight = RefFoldedWeight(trie, k)
                /\ TransitionOn(m, p, x).State =
                       IF x = b.eosId THEN STATE_NIL
                       ELSE oldToNew[StateOf(b, STATE_EMPTY, RefDestination(trie, k)) + 1]

\* The destinations of the transitions of m: STATE_NIL on </s>, else a state
\* with a transition (or STATE_START, when startMayBeLeaf).
DestinationsNonLeaf(m, startMayBeLeaf) ==
    \A p \in States(m) :
        \A i \in 1..Len(Transitions(m, p)) :
            LET t == Transitions(m, p)[i]
            IN  IF t.Word = m.eosId THEN t.State = STATE_NIL
                ELSE /\ t.State \in States(m)
                     /\ \/ Transitions(m, t.State) # <<>>
                        \/ startMayBeLeaf /\ t.State = STATE_START /\ p = STATE_EMPTY
                                          /\ t.Word = m.bosId

\* The number of transitions of m is the number of entries of the trie.
NumTransitions(m) ==
    LET counts == [p \in States(m) |-> Len(Transitions(m, p))]
        Sum[n \in 0..NumStates(m)] == IF n = 0 THEN 0 ELSE Sum[n - 1] + counts[n - 1]
    IN  Sum[NumStates(m)]

\* C11, as claimed: every transition of a compiled model leads to STATE_NIL
\* when its word is </s> and else to a surviving state that has a transition
\* of its own, with the n-gram's weight plus the back-off weights folded in.
C11_DestinationsNonLeaf ==
    pc = "build" =>
        \A trie \in {RefTrie(added)} :
            \A m \in {DumpHashed(builder, 0), DumpSorted(builder)} :
                /\ DestinationsNonLeaf(m, FALSE)
                /\ NumTransitions(m) = Cardinality(DOMAIN trie)
                /\ FoldedTransitions(builder, trie, m)

\* C11, amended: the same, except that the transition of the empty state on
\* <s> leads to STATE_START whether or not STATE_START has a transition.
C11_DestinationsNonLeafButStart ==
    pc = "build" =>
        \A trie \in {RefTrie(added)} :
            \A m \in {DumpHashed(builder, 0), DumpSorted(builder)} :
                /\ DestinationsNonLeaf(m, TRUE)
                /\ NumTransitions(m) = Cardinality(DOMAIN trie)
                /\ FoldedTransitions(builder, trie, m)

\* An entry whose state was pruned and whose suffix was skipped: the
\* transition carries two back-off weights and leads to another state.
C11_Witness ==
    /\ pc = "build"
    /\ \E k \in DOMAIN RefTrie(added) :
          /\ ~RefKept(RefTrie(added), k)
          /\ k[Len(k)] # "</s>"
          /\ RefFoldedWeight(RefTrie(added), k) # WEIGHT_LOG0
          /\ RefFoldedWeight(RefTrie(added), k) <= -4
          /\ FoldedTransitions(builder, RefTrie(added), DumpSorted(builder))
          /\ DestinationsNonLeaf(DumpSorted(builder), TRUE)

\* checkSorted (sorted_test.go): the array of one state.
SortedArrayOk(next) ==
    /\ Len(next) # 0
    /\ next[Len(next)].Word = WORD_NIL
    /\ \A i \in 1..(Len(next) - 1) : next[i].Word < next[i + 1].Word

\* C12: in a Sorted model every state's array is non-empty and strictly
\* ascending by word id, and its last entry has word.NIL and is the state's
\* back-off: the linked back-off of the Builder's state, renumbered.
C12_SortedArrays ==
    pc = "build" =>
        \A so \in {DumpSorted(builder)}, l \in {link(builder)} :
            \A oldToNew \in {prune(l).oldToNew} :
                /\ \A p \in States(so) : SortedArrayOk(so.transitions[p + 1])
                /\ \A o \in 0..(Len(oldToNew) - 1) :
                      oldToNew[o + 1] # STATE_NIL =>
                          LET next == so.transitions[oldToNew[o + 1] + 1]
                              last == next[Len(next)]
                              bo == l.backoff[o + 1]
                          IN  /\ last.Weight = bo.Weight
                              /\ last.State = IF bo.State = STATE_NIL THEN STATE_NIL
                                              ELSE oldToNew[bo.State + 1]
                              /\ BackOff(so, oldToNew[o + 1]).Weight = bo.Weight

\* A state whose transitions the Builder's table holds out of order, and a
\* surviving state whose back-off weight is not 0.
C12_Witness ==
    /\ pc = "build"
    /\ \E o \in 0..(Len(builder.transitions) - 1) :
          /\ builder.transitions[o + 1] # NilMap
          /\ LET es == BucketsRange(builder.transitions[o + 1].buckets)
             IN  \E i \in 1..(Len(es) - 1) : es[i].Key > es[i + 1].Key
          /\ SortedArrayOk(DumpSorted(builder).transitions[prune(builder).oldToNew[o + 1] + 1])
    /\ \E p \in States(DumpSorted(builder)) :
          /\ BackOff(DumpSorted(builder), p).Weight # 0
          /\ BackOff(DumpSorted(builder), p).State \in States(DumpSorted(builder))

\* ------------------------------------------------------------------------
\* The model of trickyBackOffLM (fslm.go), built in every order of its five
\* n-grams and dumped in either flavor.  Weights are in tenths, so that 0.1
\* is 1; no weight of the model reaches textLog0 in either unit.

trickyBackOffLM ==
    { Ngram(<<>>, "<s>", 0, -10),
      Ngram(<<>>, "</s>", 1, 0),
      Ngram(<<"a", "b", "c">>, "d", -10, -20),
      Ngram(<<"b", "c">>, "e", -40, 10),
      Ngram(<<"c">>, "d", 0, -30) }

InitS3 ==
    /\ outside = NilVocab
    /\ builder = NewBuilder(NilVocab, "<s>", "</s>")
    /\ model = NoModel
    /\ pc = "build"
    /\ added = <<>>
    /\ file = NoFile
    /\ loaded = NotLoaded
    /\ threads = NoThreads
    /\ heap = NoHeap
    /\ xmap = NilMap
    /\ aborted = NoCall
    /\ os = NoResources

AddTricky ==
    /\ pc = "build"
    /\ \E ng \in trickyBackOffLM :
          /\ \A i \in 1..Len(added) : added[i] # ng
          /\ ~AddNgramFatal(builder, ng.context, ng.word)
          /\ builder' = AddNgram(builder, ng.context, ng.word, ng.weight, ng.backOff)
          /\ added' = Append(added, ng)
    /\ UNCHANGED <<outside, model, pc, file, loaded, threads, heap, xmap, aborted, os>>

NextS3 == AddTricky \/ DoDumpHashed \/ DoDumpSorted

SpecS3 == InitS3 /\ [][NextS3]_vars

TrickyDumped == pc = "dumped" /\ Len(added) = Cardinality(trickyBackOffLM)

QueryLM ==
    << Ngram(<<>>, "a", -1, -2),
       Ngram(<<"a">>, "b", -1, -2),
       Ngram(<<"<s>">>, "a", -1, -2) >>

QueryOps == {"Start", "NextI", "NextS", "Final", "BackOff"}

\* The entry that FindEntry (Hashed) or findNext (Sorted) returns in state p.
Lookup(m, p, x) ==
    IF m.kind = "hashed"
    THEN LET e == m.transitions[p + 1][BucketsFindEntry(m.transitions[p + 1], x)]
         IN  WordStateWeight(e.Key, e.Value.State, e.Value.Weight)
    ELSE findNext(m, p, x)

\* The thread at the entry of a call.
Called(m, op, p, x, s) ==
    [at |-> "called", op |-> op, p0 |-> p, x0 |-> x, s0 |-> s, p |-> p, w |-> 0,
     x |-> IF op = "NextS" THEN IdOf(m.vocab, s)
           ELSE IF op = "Final" THEN m.eosId ELSE x]

Returned(th, q, w) == [th EXCEPT !.at = "done", !.p = q, !.w = w]

\* A mutant of QueryStep: the word id of the query is kept in the model.
QueryStep_Scratch(m, th) ==
    IF th.op = "Start" THEN [model |-> m, thread |-> Returned(th, STATE_START, 0)]
    ELSE IF th.op = "BackOff"
    THEN [model |-> m, thread |-> Returned(th, BackOff(m, th.p).State, BackOff(m, th.p).Weight)]
    ELSE LET next == Lookup(m, th.p, th.x)
         IN  [model |-> [m EXCEPT !.eosId = th.x],
              thread |->
                  IF next.Word = WORD_NIL /\ th.p # STATE_EMPTY
                  THEN [th EXCEPT !.p = next.State, !.w = WAdd(th.w, next.Weight)]
                  ELSE IF next.Word # WORD_NIL
                  THEN Returned(th, next.State, WAdd(th.w, next.Weight))
                  ELSE Returned(th, STATE_EMPTY, WEIGHT_LOG0)]

\* One step of a call: the model and the thread after it.
QueryStep(m, th) ==
    IF th.op = "Start" THEN [model |-> m, thread |-> Returned(th, STATE_START, 0)]
    ELSE IF th.op = "BackOff"
    THEN [model |-> m, thread |-> Returned(th, BackOff(m, th.p).State, BackOff(m, th.p).Weight)]
    ELSE LET next == Lookup(m, th.p, th.x)
         IN  [model |-> m,
              thread |->
                  IF next.Word = WORD_NIL /\ th.p # STATE_EMPTY
                  THEN [th EXCEPT !.p = next.State, !.w = WAdd(th.w, next.Weight)]
                  ELSE IF next.Word # WORD_NIL
                  THEN Returned(th, next.State, WAdd(th.w, next.Weight))
                  ELSE Returned(th, STATE_EMPTY, WEIGHT_LOG0)]

InitQ ==
    /\ outside = NilVocab
    /\ builder = DumpedBuilder(Build(NilVocab, QueryLM))
    /\ model \in {DumpHashed(Build(NilVocab, QueryLM), 0), DumpSorted(Build(NilVocab, QueryLM))}
    /\ pc = "dumped"
    /\ added = QueryLM
    /\ file = NoFile
    /\ loaded = NotLoaded
    /\ threads = NoThreads
    /\ heap = NoHeap
    /\ xmap = NilMap
    /\ aborted = NoCall
    /\ os = NoResources

QCall(t) ==
    /\ pc = "dumped"
    /\ threads[t].at = "idle"
    /\ \E op \in QueryOps, p \in States(model) :
          \/ /\ op = "NextI"
             /\ \E x \in QueryIds(model.vocab) \ {model.bosId, model.eosId} :
                   threads' = [threads EXCEPT ![t] = Called(model, op, p, x, "")]
          \/ /\ op = "NextS"
             /\ \E s \in QueryWords :
                   threads' = [threads EXCEPT ![t] = Called(model, op, p, WORD_NIL, s)]
          \/ /\ op \in {"Final", "BackOff"}
             /\ threads' = [threads EXCEPT ![t] = Called(model, op, p, WORD_NIL, "")]
          \/ /\ op = "Start"
             /\ p = STATE_START
             /\ threads' = [threads EXCEPT ![t] = Called(model, op, p, WORD_NIL, "")]
    /\ UNCHANGED <<outside, builder, model, pc, added, file, loaded, heap, xmap, aborted, os>>

QStep(t) ==
    /\ threads[t].at = "called"
    /\ model' = QueryStep(model, threads[t]).model
    /\ threads' = [threads EXCEPT ![t] = QueryStep(model, threads[t]).thread]
    /\ UNCHANGED <<outside, builder, pc, added, file, loaded, heap, xmap, aborted, os>>

QReturn(t) ==
    /\ threads[t].at = "done"
    /\ threads' = [threads EXCEPT ![t] = Idle]
    /\ UNCHANGED <<outside, builder, model, pc, added, file, loaded, heap, xmap, aborted, os>>

NextQ == \E t \in Threads : QCall(t) \/ QStep(t) \/ QReturn(t)

SpecQ == InitQ /\ [][NextQ]_vars

\* What the call of thread th returns when it runs alone on m.
Alone(m, th) ==
    IF th.op = "Start" THEN StateWeight(Start(m), 0)
    ELSE IF th.op = "BackOff" THEN BackOff(m, th.p0)
    ELSE IF th.op = "NextI"
    THEN StateWeight(NextI(m, th.p0, th.x0).State, NextI(m, th.p0, th.x0).Weight)
    ELSE IF th.op = "NextS"
    THEN StateWeight(NextS(m, th.p0, th.s0).State, NextS(m, th.p0, th.s0).Weight)
    ELSE StateWeight(NextI(m, th.p0, m.eosId).State, Final(m, th.p0))

ResultsAsAlone ==
    \A t \in Threads :
        threads[t].at = "done" => StateWeight(threads[t].p, threads[t].w) = Alone(model, threads[t])

\* C14: no step of Start, NextI, NextS, Final or BackOff changes the model,
\* and under every interleaving of the steps of the threads each call
\* returns what it returns when it runs alone.
C14_QueriesArePure == [][model' = model]_vars /\ []ResultsAsAlone

\* Both threads are inside NextI at once, each past a back-off step, on
\* different words.
C14_Witness ==
    /\ threads[1].at = "called" /\ threads[2].at = "done"
    /\ threads[1].op = "NextI" /\ threads[2].op = "NextI"
    /\ threads[1].p # threads[1].p0
    /\ threads[2].x0 # threads[1].x0
    /\ threads[2].w \notin {0, WEIGHT_LOG0}
    /\ StateWeight(threads[2].p, threads[2].w) = Alone(model, threads[2])

\* ------------------------------------------------------------------------
\* Vocab objects on the heap (vocab.go).  A *Vocab is an index into
\* heap.vocabs; its id2str is a slice, that is a backing array (an index into
\* heap.arrays, whose length is the capacity) and a length; its str2id is a
\* reference to a map (an index into heap.maps).  Two Vocab objects that hold
\* the same array or the same map see each other's writes.

\* n zero-valued strings.
RECURSIVE Blank(_)
Blank(n) == IF n = 0 THEN <<>> ELSE Append(Blank(n - 1), "")

\* append's capacity for a slice that is full (small slices double).
GrownCap(cap) == IF cap = 0 THEN 1 ELSE 2 * cap

HeapSlice(hp, h) == SubSeq(hp.arrays[hp.vocabs[h].arr], 1, hp.vocabs[h].len)

\* NewVocab: a fresh array of len(initWords) holding a copy, and a fresh map.
HeapNewVocab(hp, initWords) ==
    [hp EXCEPT !.arrays = Append(@, initWords),
               !.maps = Append(@, NewVocab(initWords).str2id),
               !.vocabs = Append(@, [arr |-> Len(hp.arrays) + 1,
                                     len |-> Len(initWords),
                                     map |-> Len(hp.maps) + 1])]

\* A copy that keeps v's slice and map: &Vocab{v.id2str, v.str2id}.
HeapCopy_Shallow(hp, h) ==
    [hp EXCEPT !.vocabs = Append(@, hp.vocabs[h])]

HeapCopy(hp, h) == HeapNewVocab(hp, HeapSlice(hp, h))

HeapBound(hp, h) == hp.vocabs[h].len

HeapIdOf(hp, h, s) ==
    LET m == hp.maps[hp.vocabs[h].map]
    IN  IF s \in DOMAIN m THEN m[s] ELSE WORD_NIL

HeapStringOf(hp, h, i) == hp.arrays[hp.vocabs[h].arr][i + 1]

\* v.id2str = append(v.id2str, s): in place when there is capacity left,
\* into a fresh array otherwise.
HeapAppend(hp, h, s) ==
    LET v == hp.vocabs[h]
        a == hp.arrays[v.arr]
        full == v.len = Len(a)
        grown == SubSeq(a, 1, v.len) \o <<s>> \o Blank(GrownCap(Len(a)) - v.len - 1)
    IN  [hp EXCEPT !.arrays = IF full THEN Append(@, grown)
                              ELSE [@ EXCEPT ![v.arr][v.len + 1] = s],
                   !.vocabs[h] = [arr |-> IF full THEN Len(hp.arrays) + 1 ELSE v.arr,
                                  len |-> v.len + 1,
                                  map |-> v.map]]

HeapMapSet(hp, h, s, i) ==
    LET m == hp.maps[hp.vocabs[h].map]
    IN  [hp EXCEPT !.maps[hp.vocabs[h].map] =
                       [t \in DOMAIN m \cup {s} |-> IF t = s THEN i ELSE m[t]]]

\* IdOrAdd that reads Bound() after the append.
HeapIdOrAdd_BoundAfter(hp, h, s) ==
    IF HeapIdOf(hp, h, s) # WORD_NIL
    THEN [heap |-> hp, id |-> HeapIdOf(hp, h, s)]
    ELSE LET appended == HeapAppend(hp, h, s)
             i == HeapBound(appended, h)
         IN  [heap |-> HeapMapSet(appended, h, s, i), id |-> i]

\* IdOrAdd returns the heap it leaves and the id.
HeapIdOrAdd(hp, h, s) ==
    IF HeapIdOf(hp, h, s) # WORD_NIL
    THEN [heap |-> hp, id |-> HeapIdOf(hp, h, s)]
    ELSE LET i == HeapBound(hp, h)
         IN  [heap |-> HeapMapSet(HeapAppend(hp, h, s), h, s, i), id |-> i]

\* The vocabulary scenario: NewVocab on a word list, then copies and IdOrAdd
\* calls on any of the vocabularies.
MaxVocabs == 3
MaxInitWords == 3
MaxBound == 4
InitWordSet == {"a", "b", "c"}
AddWordSet == {"c", "d"}
InitWordLists == SeqsUpTo(InitWordSet, MaxInitWords)

InitV ==
    /\ outside = NilVocab
    /\ builder = NewBuilder(outside, "<s>", "</s>")
    /\ model = NoModel
    /\ pc = "build"
    /\ added = <<>>
    /\ file = NoFile
    /\ loaded = NotLoaded
    /\ threads = NoThreads
    /\ heap = NoHeap
    /\ xmap = NilMap
    /\ aborted = NoCall
    /\ os = NoResources

DoNewVocabPanics ==
    /\ heap = NoHeap
    /\ \E initWords \in InitWordLists :
        /\ NewVocabPanics(initWords)
        /\ heap' = [heap EXCEPT !.call = [op |-> "NewVocab", initWords |-> initWords,
                                          panic |-> TRUE]]
    /\ UNCHANGED <<outside, builder, model, pc, added, file, loaded, threads, xmap, aborted, os>>

DoNewVocab ==
    /\ heap = NoHeap
    /\ \E initWords \in InitWordLists :
        /\ ~NewVocabPanics(initWords)
        /\ heap' = [HeapNewVocab(heap, initWords) EXCEPT
                        !.call = [op |-> "NewVocab", initWords |-> initWords,
                                  panic |-> FALSE]]
    /\ UNCHANGED <<outside, builder, model, pc, added, file, loaded, threads, xmap, aborted, os>>

DoCopy ==
    /\ Len(heap.vocabs) \in 1..(MaxVocabs - 1)
    /\ \E h \in DOMAIN heap.vocabs :
        heap' = [HeapCopy(heap, h) EXCEPT !.call = [op |-> "Copy", h |-> h]]
    /\ UNCHANGED <<outside, builder, model, pc, added, file, loaded, threads, xmap, aborted, os>>

DoIdOrAdd ==
    /\ \E h \in DOMAIN heap.vocabs, s \in AddWordSet :
        /\ HeapIdOf(heap, h, s) # WORD_NIL \/ HeapBound(heap, h) < MaxBound
        /\ LET r == HeapIdOrAdd(heap, h, s)
           IN  heap' = [r.heap EXCEPT !.call = [op |-> "IdOrAdd", h |-> h, s |-> s,
                                                id |-> r.id]]
    /\ UNCHANGED <<outside, builder, model, pc, added, file, loaded, threads, xmap, aborted, os>>

NextV == DoNewVocabPanics \/ DoNewVocab \/ DoCopy \/ DoIdOrAdd

SpecV == InitV /\ [][NextV]_vars

AllWords == InitWordSet \cup AddWordSet \cup {"e"}

\* What the vocabulary h answers in hp: its Bound, IdOf of every word and
\* StringOf of every id.
HeapView(hp, h) ==
    [bound |-> HeapBound(hp, h),
     idOf |-> [s \in AllWords |-> HeapIdOf(hp, h, s)],
     stringOf |-> [i \in 0..(HeapBound(hp, h) - 1) |-> HeapStringOf(hp, h, i)]]

\* The step from heap to heap' is an IdOrAdd call.
IsIdOrAdd == heap' # heap /\ heap'.call.op = "IdOrAdd"

\* C15: an IdOrAdd call on one of v and its copies changes only the
\* vocabulary it is called on: every other one has the same Bound and the same
\* answers as before the call, and if it did not have the word, IdOf of the
\* word is still WORD_NIL.
C15_IdOrAddFrame ==
    IsIdOrAdd =>
        \A g \in DOMAIN heap.vocabs \ {heap'.call.h} :
            /\ HeapView(heap', g) = HeapView(heap, g)
            /\ HeapIdOf(heap, g, heap'.call.s) = WORD_NIL
                   => HeapIdOf(heap', g, heap'.call.s) = WORD_NIL

C15_CopyIsolated == [][C15_IdOrAddFrame]_vars

\* v and two copies of it: the last call added a word to v that both copies
\* report as absent, and a copy has a word that v and the other copy report
\* as absent.
C15_Witness ==
    /\ Len(heap.vocabs) = 3
    /\ heap.call.op = "IdOrAdd"
    /\ heap.call.h = 1
    /\ heap.call.id = HeapBound(heap, 1) - 1
    /\ \A g \in 2..3 : HeapIdOf(heap, g, heap.call.s) = WORD_NIL
    /\ \E h \in 2..3, s \in AddWordSet :
        /\ HeapIdOf(heap, h, s) # WORD_NIL
        /\ \A g \in 1..3 \ {h} : HeapIdOf(heap, g, s) = WORD_NIL

HeapWords(hp, h) == {HeapStringOf(hp, h, i) : i \in 0..(HeapBound(hp, h) - 1)}

HeapBijection(hp, h) ==
    /\ \A i \in 0..(HeapBound(hp, h) - 1) : HeapIdOf(hp, h, HeapStringOf(hp, h, i)) = i
    /\ \A s \in AllWords \ HeapWords(hp, h) : HeapIdOf(hp, h, s) = WORD_NIL

\* What an IdOrAdd call that takes heap to heap' must have done to the
\* vocabulary it was called on.
IdOrAddContract ==
    IsIdOrAdd =>
        LET h == heap'.call.h
            s == heap'.call.s
            id == heap'.call.id
        IN  IF s \in HeapWords(heap, h)
            THEN /\ id = HeapIdOf(heap, h, s)
                 /\ HeapBound(heap', h) = HeapBound(heap, h)
            ELSE /\ id = HeapBound(heap, h)
                 /\ HeapBound(heap', h) = HeapBound(heap, h) + 1
                 /\ HeapStringOf(heap', h, id) = s
                 /\ \A i \in 0..(HeapBound(heap, h) - 1) :
                        /\ HeapStringOf(heap', h, i) = HeapStringOf(heap, h, i)
                        /\ HeapIdOf(heap', h, HeapStringOf(heap, h, i)) = i

\* C16: after NewVocab and any IdOrAdd calls every vocabulary is a bijection
\* between 0..Bound()-1 and its words (IdOf(StringOf(i)) = i, IdOf of an
\* absent word is WORD_NIL); IdOrAdd of a present word returns its id and
\* keeps Bound(); IdOrAdd of an absent word returns the old Bound(), raises
\* Bound() by one and keeps every id assigned before.
C16_VocabBijection ==
    /\ [](\A h \in DOMAIN heap.vocabs : HeapBijection(heap, h))
    /\ [][IdOrAddContract]_vars

\* A vocabulary that grew to four words by IdOrAdd of "d", on which the last
\* call asked for a word it already had.
C16_Witness ==
    /\ heap.call.op = "IdOrAdd"
    /\ HeapBound(heap, heap.call.h) = 4
    /\ heap.call.id < 3
    /\ HeapStringOf(heap, heap.call.h, 3) = "d"
    /\ HeapStringOf(heap, heap.call.h, heap.call.id) = heap.call.s

\* C17: NewVocab(initWords) panics when two entries of initWords are equal,
\* at any two positions, and otherwise the vocabulary it returns has
\* initWords[i] at id i, for every i.
C17_NewVocabDuplicates ==
    heap.call.op = "NewVocab" =>
        LET initWords == heap.call.initWords
            duplicate == \E i, j \in DOMAIN initWords : i < j /\ initWords[i] = initWords[j]
        IN  /\ heap.call.panic <=> duplicate
            /\ heap.call.panic => heap.vocabs = <<>>
            /\ ~heap.call.panic =>
                /\ Len(heap.vocabs) = 1
                /\ HeapBound(heap, 1) = Len(initWords)
                /\ \A i \in DOMAIN initWords :
                    /\ HeapIdOf(heap, 1, initWords[i]) = i - 1
                    /\ HeapStringOf(heap, 1, i - 1) = initWords[i]

\* NewVocab has panicked on a list whose only equal entries are the first and
\* the last.
C17_Witness ==
    /\ heap.call.op = "NewVocab"
    /\ heap.call.panic
    /\ Len(heap.call.initWords) = MaxInitWords
    /\ heap.call.initWords[1] = heap.call.initWords[MaxInitWords]
    /\ heap.call.initWords[2] # heap.call.initWords[1]

\* EOS somewhere in the context, or BOS somewhere but at its head.
InvalidContext(context) ==
    \E i \in DOMAIN context : context[i] = "</s>" \/ (context[i] = "<s>" /\ i # 1)

\* The step is an AddNgram call, which returned or aborted.
IsAddNgram == pc = "build" /\ (pc' = "fatal" \/ added' # added)

\* The context of the AddNgram call of the step.
CalledContext == IF pc' = "fatal" THEN aborted'.context ELSE added'[Len(added')].context

\* C18: AddNgram aborts exactly when its context has EOS at some index or BOS
\* at an index other than 0, and an aborted call has changed nothing in the
\* builder: no state, no transition, no back-off weight, no vocabulary entry.
C18_StepFatalIffInvalid ==
    IsAddNgram =>
        /\ pc' = "fatal" <=> InvalidContext(CalledContext)
        /\ pc' = "fatal" => builder' = builder

C18_FatalIffInvalidContext == [][C18_StepFatalIffInvalid]_vars

\* A call with BOS at the head of a two-word context has returned, and a call
\* with BOS at the second index has aborted.
C18_Witness ==
    /\ pc = "fatal"
    /\ Len(aborted.context) = 2
    /\ aborted.context[2] = "<s>"
    /\ aborted.context[1] # "</s>"
    /\ \E i \in DOMAIN added :
        /\ Len(added[i].context) = 2
        /\ added[i].context[1] = "<s>"

\* ------------------------------------------------------------------------
\* The map scenario: a map of capacity 4 and maximal load 0.8, and
\* *m.FindOrInsert(k) = v calls on it.  xmap.map is the map and xmap.stored
\* the value last stored under each key.
MaxEntries == 5
MapKeys == 0..MaxKey
MapValues == {StateWeight(1, 0), StateWeight(2, -1)}

InitM ==
    /\ outside = NilVocab
    /\ builder = NewBuilder(outside, "<s>", "</s>")
    /\ model = NoModel
    /\ pc = "build"
    /\ added = <<>>
    /\ file = NoFile
    /\ loaded = NotLoaded
    /\ threads = NoThreads
    /\ heap = NoHeap
    /\ xmap = [map |-> newXqwMap(4, 8), stored |-> <<>>]
    /\ aborted = NoCall
    /\ os = NoResources

DoFindOrInsert ==
    /\ \E k \in MapKeys, v \in MapValues :
        /\ k \in DOMAIN xmap.stored \/ MapSize(xmap.map) < MaxEntries
        /\ xmap' = [map |-> MapSet(xmap.map, k, v),
                    stored |-> [j \in DOMAIN xmap.stored \cup {k} |->
                                   IF j = k THEN v ELSE xmap.stored[j]]]
    /\ UNCHANGED <<outside, builder, model, pc, added, file, loaded, threads, heap, aborted, os>>

NextM == DoFindOrInsert

SpecM == InitM /\ [][NextM]_vars

\* C19: the map of capacity 4 and maximal load 0.8 has threshold 3; it keeps
\* its 4 buckets for the first 3 keys and has 8 buckets from the fourth key
\* on, so after 5 distinct keys it has doubled once; Find returns the value
\* stored under every key inserted, and nothing for any other key.
C19_GrowsOnceAtThreshold ==
    /\ newXqwMap(4, 8).threshold = 3
    /\ MapSize(xmap.map) = Cardinality(DOMAIN xmap.stored)
    /\ MapSize(xmap.map) <= 3 => Len(xmap.map.buckets) = 4
    /\ MapSize(xmap.map) \in 4..5 => Len(xmap.map.buckets) = 8
    /\ \A k \in MapKeys :
        MapFind(xmap.map, k) = IF k \in DOMAIN xmap.stored
                               THEN Found(xmap.stored[k]) ELSE NotFound

\* Five distinct keys are in the map.
C19_Witness ==
    /\ Cardinality(DOMAIN xmap.stored) = 5
    /\ MapSize(xmap.map) = 5
    /\ Len(xmap.map.buckets) = 8

\* ------------------------------------------------------------------------
\* Parsing an image that is not the one WriteBinary wrote.  A raw image is the
\* sections of a written file together with size, the number of bytes of raw
\* that are there: a truncated image has fewer bytes than its sections need,
\* an extended one has more.  raw is the slice of a memory mapping, so its
\* capacity is its length and a slice expression that ends past size panics.

Raw(f, magic, size) ==
    [magic |-> magic, headerLen |-> f.headerLen, header |-> f.header,
     padding |-> f.padding, entries |-> f.entries, size |-> size]

ParsePanic(msg) == [panic |-> TRUE, err |-> "", what |-> msg]

ParseFailed(msg) == [panic |-> FALSE, err |-> msg]

Parsed(m) == [panic |-> FALSE, err |-> "", model |-> m]

\* (uintptr(len(raw))-read)%size: the difference wraps modulo 2^64 when read
\* is past the end, and 2^64 leaves 4 modulo 12.
LeftOver(f) ==
    IF f.size >= EntriesAt(f) THEN (f.size - EntriesAt(f)) % EntrySize
    ELSE (4 + EntrySize - ((EntriesAt(f) - f.size) % EntrySize)) % EntrySize

\* UnsafeParseBinary from the read of the header length on; needed is the
\* number of entries that the slicing loop takes.
ParseRawHeader(f, needed, parsed) ==
    IF f.size < MagicLen + MaxVarintLen64
    THEN ParsePanic("raw[read : read+binary.MaxVarintLen64]")
    ELSE IF f.size < MagicLen + MaxVarintLen64 + f.headerLen
    THEN ParsePanic("raw[read : read+uintptr(headerLen)]")
    ELSE IF parseHeader(f.header).err # "" THEN ParseFailed(parseHeader(f.header).err)
    ELSE IF LeftOver(f) # 0
    THEN ParseFailed("number of left-over bytes are not a multiple of 12")
    ELSE IF EntriesAt(f) > f.size THEN ParsePanic("raw[read:]")
    ELSE IF needed > (f.size - EntriesAt(f)) \div EntrySize
    THEN ParsePanic("entrySlice[low : low+n]")
    ELSE Parsed(parsed)

\* Hashed.unsafeParseBinary on a raw image: the magic is sliced unchecked.
HashedUnsafeParseRaw(f) ==
    IF f.size < MagicLen THEN ParsePanic("raw[:len(hashedMagic)]")
    ELSE IF f.magic # MAGIC_HASHED THEN ParseFailed("not a FSLM binary file")
    ELSE ParseRawHeader(f, HashedLow(f.header.counts, Len(f.header.counts) + 1),
                        HashedUnsafeParseBinary(f).model)

\* Sorted.UnsafeParseBinary on a raw image: the length is tested before the
\* magic is sliced.
SortedUnsafeParseRaw(f) ==
    IF f.size < MagicLen \/ f.magic # MAGIC_SORTED
    THEN ParseFailed("not a FSLM binary file")
    ELSE ParseRawHeader(f, SortedLow(f.header.counts, Len(f.header.counts) + 1),
                        SortedUnsafeParseBinary(f).model)

\* The scenario: a small model is built, dumped and written, the image is
\* damaged (or left as it is), and one of the two parsers is run on it.
ImageNgrams ==
    <<Ngram(<<>>, "a", -1, -2), Ngram(<<"a">>, "b", -1, -2)>>

MaxTrailing == 13
WrongMagics == {"#fslm.hash", "#fslm.sort", "#fslm.xxxx"}

InitP ==
    /\ outside = NilVocab
    /\ builder = Build(outside, ImageNgrams)
    /\ model = NoModel
    /\ pc = "build"
    /\ added = ImageNgrams
    /\ file = NoFile
    /\ loaded = NotLoaded
    /\ threads = NoThreads
    /\ heap = NoHeap
    /\ xmap = NilMap
    /\ aborted = NoCall
    /\ os = NoResources

\* The image as it was written.
DoKeep ==
    /\ pc = "written"
    /\ file' = Raw(file, file.magic, FileLen(file))
    /\ pc' = "damaged"
    /\ UNCHANGED <<outside, builder, model, added, loaded, threads, heap, xmap, aborted, os>>

\* The first ten bytes are overwritten.
DoOverwriteMagic ==
    /\ pc = "written"
    /\ \E magic \in WrongMagics \ {file.magic} :
        file' = Raw(file, magic, FileLen(file))
    /\ pc' = "damaged"
    /\ UNCHANGED <<outside, builder, model, added, loaded, threads, heap, xmap, aborted, os>>

\* The image is cut after size bytes.
DoTruncate ==
    /\ pc = "written"
    /\ \E size \in 1..(FileLen(file) - 1) :
        file' = Raw(file, file.magic, size)
    /\ pc' = "damaged"
    /\ UNCHANGED <<outside, builder, model, added, loaded, threads, heap, xmap, aborted, os>>

\* Bytes are appended to the image.
DoExtend ==
    /\ pc = "written"
    /\ \E more \in 1..MaxTrailing :
        file' = Raw(file, file.magic, FileLen(file) + more)
    /\ pc' = "damaged"
    /\ UNCHANGED <<outside, builder, model, added, loaded, threads, heap, xmap, aborted, os>>

DoParseHashed ==
    /\ pc = "damaged"
    /\ loaded' = [parser |-> "hashed", out |-> HashedUnsafeParseRaw(file)]
    /\ pc' = "parsed"
    /\ UNCHANGED <<outside, builder, model, added, file, threads, heap, xmap, aborted, os>>

DoParseSorted ==
    /\ pc = "damaged"
    /\ loaded' = [parser |-> "sorted", out |-> SortedUnsafeParseRaw(file)]
    /\ pc' = "parsed"
    /\ UNCHANGED <<outside, builder, model, added, file, threads, heap, xmap, aborted, os>>

NextP ==
    \/ DoDumpHashed
    \/ DoDumpSorted
    \/ DoWriteBinary
    \/ DoKeep
    \/ DoOverwriteMagic
    \/ DoTruncate
    \/ DoExtend
    \/ DoParseHashed
    \/ DoParseSorted

SpecP == InitP /\ [][NextP]_vars

\* The three kinds of damage.  The magic is missing when the image is shorter
\* than the magic, and wrong when its first bytes are not the magic of the
\* parser that runs.
MagicMissing(f) == f.size < MagicLen

MagicOf(parser) == IF parser = "hashed" THEN MAGIC_HASHED ELSE MAGIC_SORTED

MagicWrong(f, parser) == f.size >= MagicLen /\ f.magic # MagicOf(parser)

\* The declared header length exceeds the bytes that remain after it.
HeaderTruncated(f) ==
    /\ f.size >= MagicLen + MaxVarintLen64
    /\ f.size < MagicLen + MaxVarintLen64 + f.headerLen

\* The entry region is not a whole number of records.
EntriesRagged(f) ==
    /\ f.size >= EntriesAt(f)
    /\ (f.size - EntriesAt(f)) % EntrySize # 0

ReturnedError(r) == ~r.panic /\ r.err # ""

\* C20: a parse of an image whose magic is wrong or missing, whose declared
\* header length exceeds the bytes that remain, or whose entry region is not
\* a multiple of the record size, returns an error: it does not crash and
\* yields no model.
C20_DamagedImageIsError ==
    (/\ pc = "parsed"
     /\ \/ MagicMissing(file)
        \/ MagicWrong(file, loaded.parser)
        \/ HeaderTruncated(file)
        \/ EntriesRagged(file))
        => ReturnedError(loaded.out)

\* ------------------------------------------------------------------------
\* The builder's vocabulary on the heap.  The caller's vocabulary V is the
\* Vocab object 1; heap.builder is the object that builder.vocab points to,
\* and every IdOrAdd of AddNgram goes to that object.

\* A NewBuilder that keeps the caller's pointer: builder.vocab = vocab.
HeapNewBuilder_NoCopy(hp, v) ==
    [arrays |-> hp.arrays, maps |-> hp.maps, vocabs |-> hp.vocabs,
     call |-> [op |-> "NewBuilder", h |-> v], builder |-> v]

\* NewBuilder with a non-nil vocabulary: vocab = vocab.Copy().
HeapNewBuilder(hp, v) ==
    [arrays |-> HeapCopy(hp, v).arrays, maps |-> HeapCopy(hp, v).maps,
     vocabs |-> HeapCopy(hp, v).vocabs,
     call |-> [op |-> "NewBuilder", h |-> v], builder |-> Len(hp.vocabs) + 1]

\* The IdOrAdd calls of AddNgram: findState on the context, then the word.
RECURSIVE HeapIdOrAddAll(_, _, _, _)
HeapIdOrAddAll(hp, h, ws, i) ==
    IF i > Len(ws) THEN hp
    ELSE HeapIdOrAddAll(HeapIdOrAdd(hp, h, ws[i]).heap, h, ws, i + 1)

HeapAddNgram(hp, context, word) ==
    HeapIdOrAddAll(hp, hp.builder, Append(context, word), 1)

OutsideVocabs ==
    {NewVocab(<<"</s>", "<unk>", "<s>">>), NewVocab(<<"<s>", "</s>", "a">>)}

InitB ==
    /\ outside \in OutsideVocabs
    /\ builder = NewBuilder(outside, "<s>", "</s>")
    /\ model = NoModel
    /\ pc = "build"
    /\ added = <<>>
    /\ file = NoFile
    /\ loaded = NotLoaded
    /\ threads = NoThreads
    /\ heap = HeapNewBuilder(HeapNewVocab(NoHeap, outside.id2str), 1)
    /\ xmap = NilMap
    /\ aborted = NoCall
    /\ os = NoResources

\* AddNgram, with the vocabulary calls it makes on the heap.
DoAddNgramHeap ==
    /\ pc = "build"
    /\ Len(added) < MaxNgrams
    /\ \E context \in Contexts, word \in NgramWords, weight \in Weights, backOff \in BackOffs :
          /\ ~AddNgramFatal(builder, context, word)
          /\ builder' = AddNgram(builder, context, word, weight, backOff)
          /\ added' = Append(added, Ngram(context, word, weight, backOff))
          /\ heap' = HeapAddNgram(heap, context, word)
    /\ UNCHANGED <<outside, model, pc, file, loaded, threads, xmap, aborted, os>>

NextB == DoAddNgramHeap \/ DoAddNgramFatal \/ DoDumpHashed \/ DoDumpSorted

SpecB == InitB /\ [][NextB]_vars

VocabWords == Letters \cup {"<s>", "</s>", "<unk>"}

\* C21: the vocabulary V given to NewBuilder keeps its Bound, the id of every
\* word and the word of every id through AddNgram calls and the dump, also
\* when the n-grams bring new words.
C21_OutsideVocabUnchanged ==
    /\ HeapBound(heap, 1) = Bound(outside)
    /\ \A s \in VocabWords : HeapIdOf(heap, 1, s) = IdOf(outside, s)
    /\ \A i \in 0..(Bound(outside) - 1) : HeapStringOf(heap, 1, i) = StringOf(outside, i)

\* A model was dumped whose vocabulary has two words that V does not have;
\* the builder's vocabulary object held the same words as the builder.
C21_Witness ==
    /\ pc = "dumped"
    /\ Bound(model.vocab) >= Bound(outside) + 2
    /\ HeapSlice(heap, heap.builder) = model.vocab.id2str
    /\ \E s \in Letters : IdOf(outside, s) = WORD_NIL /\ IdOf(model.vocab, s) # WORD_NIL

\* The builder that was dumped, linked, and the renumbering of its states.
LinkedBuilder == link(Build(outside, added))

\* The back-off pair that old state o must carry in the compiled model.
ExpectedBackOff(l, oldToNew, o) ==
    StateWeight(IF o = STATE_EMPTY THEN STATE_NIL
                ELSE oldToNew[l.backoff[o + 1].State + 1],
                l.backoff[o + 1].Weight)

EmptyBuckets(b) == {j \in 1..Len(b) : b[j].Key = WORD_NIL}

\* C22: in a Hashed model every state's bucket array has a bucket with key
\* word.NIL, and every such bucket holds the state's back-off weight and its
\* back-off state under the new numbering (STATE_NIL for STATE_EMPTY); so
\* BackOff(p) and the bucket a missed lookup stops at give the same pair.
C22_EmptyBucketsCarryBackOff ==
    (pc = "dumped" /\ model.kind = "hashed") =>
        \A l \in {LinkedBuilder} : \A oldToNew \in {prune(l).oldToNew} :
            \A o \in 0..(Len(oldToNew) - 1) :
                oldToNew[o + 1] # STATE_NIL =>
                    LET b == model.transitions[oldToNew[o + 1] + 1]
                        bo == ExpectedBackOff(l, oldToNew, o)
                    IN  /\ EmptyBuckets(b) # {}
                        /\ \A j \in EmptyBuckets(b) : b[j].Value = bo
                        /\ BackOff(model, oldToNew[o + 1]) = bo
                        /\ \A x \in QueryIds(model.vocab) :
                               b[BucketsFindEntry(b, x)].Key = WORD_NIL
                                   => b[BucketsFindEntry(b, x)].Value = bo

\* A Hashed model with a state that has two empty buckets, a state with a
\* back-off weight other than 0, and a state that DumpHashed renumbered.
C22_Witness ==
    /\ pc = "dumped"
    /\ model.kind = "hashed"
    /\ \E p \in States(model) : Cardinality(EmptyBuckets(model.transitions[p + 1])) >= 2
    /\ \E p \in States(model) \ {STATE_EMPTY} : BackOff(model, p).Weight # 0
    /\ \E o \in 1..(NumStates(model) - 1) :
           prune(LinkedBuilder).oldToNew[o + 1] \notin {o, STATE_NIL}

\* ------------------------------------------------------------------------
\* The map under FindOrInsert and Resize: any map newXqwMap can make, writes
\* *m.FindOrInsert(k) = v and Resize(n) calls.  xmap.call is the last call.
MaxResize == 6
MaxBuckets == 12
MaxLive == 4
ResizeKeys == {0, 1, 2, 5, 7}
InitNumBuckets == {0, 1, 3}
MaxUseds10 == {0, 1, 9}

InitR ==
    /\ outside = NilVocab
    /\ builder = NewBuilder(outside, "<s>", "</s>")
    /\ model = NoModel
    /\ pc = "build"
    /\ added = <<>>
    /\ file = NoFile
    /\ loaded = NotLoaded
    /\ threads = NoThreads
    /\ heap = NoHeap
    /\ \E n \in InitNumBuckets, mu \in MaxUseds10 :
        xmap = [map |-> newXqwMap(n, mu), stored |-> <<>>, call |-> [op |-> "new"]]
    /\ aborted = NoCall
    /\ os = NoResources

DoFindOrInsertStore ==
    /\ \E k \in ResizeKeys, v \in MapValues :
        /\ k \in DOMAIN xmap.stored \/ MapSize(xmap.map) < MaxLive
        /\ Len(MapSet(xmap.map, k, v).buckets) <= MaxBuckets
        /\ xmap' = [map |-> MapSet(xmap.map, k, v),
                    stored |-> [j \in DOMAIN xmap.stored \cup {k} |->
                                   IF j = k THEN v ELSE xmap.stored[j]],
                    call |-> [op |-> "FindOrInsert", k |-> k]]
    /\ UNCHANGED <<outside, builder, model, pc, added, file, loaded, threads, heap, aborted, os>>

DoResize ==
    /\ \E n \in 0..MaxResize :
        xmap' = [map |-> MapResize(xmap.map, n), stored |-> xmap.stored,
                 call |-> [op |-> "Resize", n |-> n]]
    /\ UNCHANGED <<outside, builder, model, pc, added, file, loaded, threads, heap, aborted, os>>

NextR == DoFindOrInsertStore \/ DoResize

SpecR == InitR /\ [][NextR]_vars

LiveBuckets(b) == {j \in 1..Len(b) : b[j].Key # WORD_NIL}

\* C23: numEntries is the number of buckets with a live key and is smaller
\* than the number of buckets, and the probe loops of Find, FindEntry and
\* nextAvailable end for every key.
C23_ProbesTerminate ==
    /\ MapSize(xmap.map) = Cardinality(LiveBuckets(xmap.map.buckets))
    /\ MapSize(xmap.map) < Len(xmap.map.buckets)
    /\ \A k \in MapKeys :
        /\ BucketsFindEntry(xmap.map.buckets, k) # 0
        /\ BucketsNextAvailable(xmap.map.buckets, k) # 0
        /\ "diverges" \notin DOMAIN MapFind(xmap.map, k)

\* A map that Resize left with one bucket more than it has entries, all but
\* one of its buckets live.
C23_Witness ==
    /\ xmap.call.op = "Resize"
    /\ MapSize(xmap.map) >= 3
    /\ Len(xmap.map.buckets) = MapSize(xmap.map) + 1
    /\ xmap.call.n < MapSize(xmap.map)

\* Find answers as a map from key to the value last written.
FindAgrees(m, stored) ==
    \A k \in MapKeys :
        MapFind(m, k) = IF k \in DOMAIN stored THEN Found(stored[k]) ELSE NotFound

Entries(m) == {m.buckets[j] : j \in LiveBuckets(m.buckets)}

\* What a Resize(n) call that takes xmap to xmap' must have done.
ResizeContract ==
    (xmap' # xmap /\ xmap'.call.op = "Resize") =>
        /\ Entries(xmap'.map) = Entries(xmap.map)
        /\ MapSize(xmap'.map) = MapSize(xmap.map)
        /\ Len(xmap'.map.buckets) =
               IF xmap'.call.n > MapSize(xmap.map) + 1
               THEN xmap'.call.n ELSE MapSize(xmap.map) + 1

\* C24: Find(k) returns the value last written for k through FindOrInsert if
\* k was inserted and nothing otherwise, whatever Resize calls came between;
\* Resize(n) keeps every key and value and leaves max(n, numEntries+1)
\* buckets.
C24_MapRefinement ==
    /\ []FindAgrees(xmap.map, xmap.stored)
    /\ [][ResizeContract]_vars

\* Four keys were written, not all with the same value, and the last call was
\* a Resize that left them in five buckets.
C24_Witness ==
    /\ xmap.call.op = "Resize"
    /\ Cardinality(DOMAIN xmap.stored) = 4
    /\ Len(xmap.map.buckets) = 5
    /\ \E j, k \in DOMAIN xmap.stored : xmap.stored[j] # xmap.stored[k]

\* ------------------------------------------------------------------------
\* Linking: n-grams whose contexts are suffixes of one another, with back-off
\* weights that tell them apart when they are summed, added in any order and
\* in any number.
linkLM ==
    { Ngram(<<"a", "b">>, "c", -3, -1),
      Ngram(<<"b">>, "c", -3, -2),
      Ngram(<<>>, "c", -3, -4),
      Ngram(<<"c">>, "d", -3, -8),
      Ngram(<<"a", "b", "c">>, "d", -3, -16) }

AddLinked ==
    /\ pc = "build"
    /\ \E ng \in linkLM :
          /\ \A i \in 1..Len(added) : added[i] # ng
          /\ ~AddNgramFatal(builder, ng.context, ng.word)
          /\ builder' = AddNgram(builder, ng.context, ng.word, ng.weight, ng.backOff)
          /\ added' = Append(added, ng)
    /\ UNCHANGED <<outside, model, pc, file, loaded, threads, heap, xmap, aborted, os>>

NextL == AddLinked \/ DoDumpHashed \/ DoDumpSorted

SpecL == InitS3 /\ [][NextL]_vars

\* The contexts that are states: every entry that does not end in </s>.
RefStates(trie) == {k \in DOMAIN trie : k[Len(k)] # "</s>"}

\* C25: after link() every state q but STATE_EMPTY, of context c, backs off
\* to the state of the longest proper suffix of c that is in the trie and has
\* a transition (STATE_EMPTY if there is none), with the back-off weight
\* given for q plus those of the proper suffixes of c in the trie that are
\* longer than the target and have no transition, each once.
C25_LinkSkipsLeaves ==
    pc = "build" =>
        \A l \in {link(builder)} : \A trie \in {RefTrie(added)} :
            /\ Len(l.backoff) = 1 + Cardinality(RefStates(trie))
            /\ \A c \in RefStates(trie) :
                l.backoff[StateOf(builder, STATE_EMPTY, c) + 1] =
                    StateWeight(StateOf(builder, STATE_EMPTY,
                                        RefBackTarget(trie, DropFirst(c))),
                                WAdd(trie[c].bow, RefSkipped(trie, DropFirst(c))))

\* The state of "a b c" skips the states of "b c" and of "c", which have no
\* transition and were created after it, and takes their back-off weights.
C25_Witness ==
    /\ pc = "build"
    /\ Len(added) = 4
    /\ added[1].context = <<"a", "b", "c">>
    /\ \A i \in 1..4 : added[i].context # <<"c">>
    /\ StateOf(builder, STATE_EMPTY, <<"b", "c">>) > StateOf(builder, STATE_EMPTY, <<"a", "b", "c">>)
    /\ link(builder).backoff[StateOf(builder, STATE_EMPTY, <<"a", "b", "c">>) + 1]
           = StateWeight(STATE_EMPTY, -7)

\* The step is an AddNgram call that returned, for an n-gram ending in </s>.
IsAddEos == pc = "build" /\ added' # added /\ added'[Len(added')].word = "</s>"

\* What such a call must have done to the builder: the states of the context
\* and no other, the final transition on the context state, and every
\* back-off weight as it was (0 for a state of the context made by the call).
AddEosContract ==
    IsAddEos =>
        LET ng == added'[Len(added')]
            r == findState(builder, STATE_EMPTY, ng.context)
        IN  /\ Len(builder'.backoff) = Len(r.b.backoff)
            /\ MapFind(builder'.transitions[r.q + 1], builder.eosId)
                   = Found(StateWeight(STATE_NIL, Log0(ng.weight)))
            /\ \A q \in 0..(Len(builder'.backoff) - 1) :
                   builder'.backoff[q + 1].Weight =
                       IF q < Len(builder.backoff) THEN builder.backoff[q + 1].Weight ELSE 0

\* In the compiled model the final transition of every context that was given
\* one leads to STATE_NIL with the weight of the last call for it.
EosCompiled ==
    pc = "dumped" =>
        \A b \in {Build(outside, added)} : \A oldToNew \in {prune(b).oldToNew} :
            \A i \in 1..Len(added) :
                (/\ added[i].word = "</s>"
                 /\ \A j \in (i + 1)..Len(added) :
                        added[j].word # "</s>" \/ added[j].context # added[i].context)
                    => LET p == oldToNew[StateOf(b, STATE_EMPTY, added[i].context) + 1]
                       IN  /\ p # STATE_NIL
                           /\ HasTransition(model, p, model.eosId)
                           /\ TransitionOn(model, p, model.eosId).State = STATE_NIL
                           /\ TransitionOn(model, p, model.eosId).Weight = Log0(added[i].weight)

\* C26: AddNgram of an n-gram ending in EOS sets the transition
\* (p, EOS, STATE_NIL, weight) on the context state p, makes no destination
\* state and changes no back-off weight; the compiled model has that entry
\* with destination STATE_NIL and the same weight.
C26_EosIsFinalTransition ==
    /\ [][AddEosContract]_vars
    /\ []EosCompiled

\* A model compiled after a call for an n-gram ending in </s> with a context,
\* a finite weight and a back-off weight other than 0, and a call for an
\* n-gram ending in another word.
C26_Witness ==
    /\ pc = "dumped"
    /\ \E i \in 1..Len(added) :
        /\ added[i].word = "</s>"
        /\ added[i].context # <<>>
        /\ added[i].backOff # 0
        /\ added[i].weight > textLog0
    /\ \E i \in 1..Len(added) : added[i].word # "</s>"

\* The scale a DumpHashed call works with, in halves.
UsedScale2(scale2) == IF scale2 <= 2 THEN 3 ELSE scale2

Max(a, b) == IF a >= b THEN a ELSE b

\* The number of transitions a state of the linked Builder holds.
Count(l, o) == IF l.transitions[o + 1] = NilMap THEN 0 ELSE MapSize(l.transitions[o + 1])

\* The step is a DumpHashed call with this scale, and every surviving state
\* got Want(count, scale) buckets.
HashedSized(scale2, Want(_, _)) ==
    (pc = "build" /\ pc' = "dumped" /\ model' = DumpHashed(builder, scale2)) =>
        \A l \in {link(builder)} : \A oldToNew \in {prune(l).oldToNew} :
            \A o \in 0..(Len(oldToNew) - 1) :
                oldToNew[o + 1] # STATE_NIL =>
                    /\ Len(model'.transitions[oldToNew[o + 1] + 1])
                           = Want(Count(l, o), UsedScale2(scale2))
                    /\ Cardinality({j \in 1..Len(model'.transitions[oldToNew[o + 1] + 1]) :
                           model'.transitions[oldToNew[o + 1] + 1][j].Key # WORD_NIL})
                           = Count(l, o)

CeilBuckets(count, sc) == Max((count * sc + 1) \div 2, count + 1)

FloorBuckets(count, sc) == Max((count * sc) \div 2, count + 1)

\* C27 as stated: DumpHashed(scale) replaces a scale <= 1 by 1.5 and gives
\* each surviving state holding count transitions exactly
\* max(ceil(count * scale), count + 1) buckets.
C27_BucketsCeil == [][\A scale2 \in Scales2 : HashedSized(scale2, CeilBuckets)]_vars

\* C27 amended: DumpHashed(scale) replaces a scale <= 1 by 1.5 and gives each
\* surviving state holding count transitions exactly
\* max(floor(count * scale), count + 1) buckets: the product is truncated.
C27_BucketsFloor == [][\A scale2 \in Scales2 : HashedSized(scale2, FloorBuckets)]_vars

\* A Hashed model with a state of five transitions in seven buckets: the
\* scale was 1.5 and 7.5 was truncated (count + 1 is six, the ceiling eight).
C27_Witness ==
    /\ pc = "dumped"
    /\ model.kind = "hashed"
    /\ \E n \in 1..Len(model.transitions) :
        /\ Len(model.transitions[n]) = 7
        /\ Cardinality({j \in 1..7 : model.transitions[n][j].Key # WORD_NIL}) = 5

\* The survivors of compilation: the two fixed states and every state that
\* holds a transition after linking.
Survives(l, o) == o <= STATE_START \/ l.transitions[o + 1] # NilMap

\* The words with a transition out of old state o of the linked Builder.
BuilderWords(l, o) ==
    IF l.transitions[o + 1] = NilMap THEN {}
    ELSE {l.transitions[o + 1].buckets[j].Key : j \in 1..Len(l.transitions[o + 1].buckets)}
             \ {WORD_NIL}

\* The words with a transition out of state p of the compiled model.
ModelWords(m, p) == {Transitions(m, p)[i].Word : i \in 1..Len(Transitions(m, p))}

\* Every entry the compiled model stores for state p, back-off entries (those
\* with word.NIL) included, as a pair of a word and a state id.
StoredIds(m, p) ==
    IF m.kind = "hashed"
    THEN {[Word |-> m.transitions[p + 1][j].Key, State |-> m.transitions[p + 1][j].Value.State] :
              j \in 1..Len(m.transitions[p + 1])}
    ELSE {[Word |-> m.transitions[p + 1][j].Word, State |-> m.transitions[p + 1][j].State] :
              j \in 1..Len(m.transitions[p + 1])}

\* C28: compilation numbers the surviving states 0..NumStates()-1 in the
\* order of their old ids, STATE_EMPTY stays 0 and STATE_START stays 1 even
\* without transitions, and every state id the compiled model stores is below
\* NumStates() or is STATE_NIL, which is stored only as the destination of an
\* EOS transition and as the back-off state of STATE_EMPTY.
C28_DenseRenumbering ==
    pc = "dumped" =>
        \A l \in {LinkedBuilder} : \A oldToNew \in {prune(l).oldToNew} :
            /\ Len(oldToNew) = Len(l.backoff)
            /\ NumStates(model) = Cardinality({o \in 0..(Len(oldToNew) - 1) : Survives(l, o)})
            /\ \A o \in 0..(Len(oldToNew) - 1) :
                  IF Survives(l, o)
                  THEN /\ oldToNew[o + 1]
                              = Cardinality({o2 \in 0..(o - 1) : Survives(l, o2)})
                       /\ ModelWords(model, oldToNew[o + 1]) = BuilderWords(l, o)
                  ELSE oldToNew[o + 1] = STATE_NIL
            /\ oldToNew[STATE_EMPTY + 1] = STATE_EMPTY
            /\ oldToNew[STATE_START + 1] = STATE_START
            /\ \A p \in States(model) : \A e \in StoredIds(model, p) :
                  /\ e.State \in States(model) \cup {STATE_NIL}
                  /\ e.State = STATE_NIL =>
                        \/ e.Word = model.eosId
                        \/ e.Word = WORD_NIL /\ p = STATE_EMPTY
                  /\ (e.Word = WORD_NIL /\ p = STATE_EMPTY) => e.State = STATE_NIL

\* A compiled model whose Builder had a pruned state before a surviving one,
\* with STATE_START without transitions and with an EOS transition out of a
\* state other than STATE_EMPTY.
C28_Witness ==
    /\ pc = "dumped"
    /\ Transitions(model, STATE_START) = <<>>
    /\ \E o \in 0..(Len(LinkedBuilder.backoff) - 1) :
          /\ prune(LinkedBuilder).oldToNew[o + 1] # STATE_NIL
          /\ prune(LinkedBuilder).oldToNew[o + 1] < o
    /\ \E p \in States(model) \ {STATE_EMPTY} :
          [Word |-> model.eosId, State |-> STATE_NIL] \in StoredIds(model, p)

\* The largest order of the n-grams added, 0 when none was.
MaxOrder(ngrams) ==
    LET orders == {Len(ngrams[i].context) + 1 : i \in 1..Len(ngrams)}
    IN  IF orders = {} THEN 0 ELSE CHOOSE n \in orders : \A k \in orders : k <= n

\* The state reached from p by k back-off steps.
RECURSIVE BackOffState(_, _, _)
BackOffState(m, p, k) == IF k = 0 THEN p ELSE BackOffState(m, BackOff(m, p).State, k - 1)

\* The sum of the back-off weights of the first k states of p's chain.
RECURSIVE BackOffSum(_, _, _)
BackOffSum(m, p, k) ==
    IF k = 0 THEN 0
    ELSE WAdd(BackOff(m, p).Weight, BackOffSum(m, BackOff(m, p).State, k - 1))

\* NextI(p, x) took r.hops back-off steps: through states without a
\* transition on x, all different, to the first state with one or to
\* STATE_EMPTY; the weights of exactly these states are in the result.
HopsAccounted(m, p, x, r) ==
    /\ r.hops \in 0..NumStates(m)
    /\ \A k \in 0..(r.hops - 1) :
          /\ BackOffState(m, p, k) \in States(m) \ {STATE_EMPTY}
          /\ ~HasTransition(m, BackOffState(m, p, k), x)
          /\ \A k2 \in 0..(k - 1) : BackOffState(m, p, k2) # BackOffState(m, p, k)
    /\ \A last \in {BackOffState(m, p, r.hops)} :
          /\ last \in States(m)
          /\ IF HasTransition(m, last, x)
             THEN /\ r.State = TransitionOn(m, last, x).State
                  /\ r.Weight = WAdd(BackOffSum(m, p, r.hops), TransitionOn(m, last, x).Weight)
             ELSE /\ last = STATE_EMPTY
                  /\ r.State = STATE_EMPTY
                  /\ r.Weight = WEIGHT_LOG0

NilMappedFile == [file |-> -1, data |-> -1]

\* The descriptor os.Open returns: the lowest one not in use.
NewFd(o) == CHOOSE fd \in 0..Cardinality(o.fds) : fd \notin o.fds

\* OpenMappedFile: sys tells which of os.Open, f.Stat and syscall.Mmap
\* succeed.
OpenMappedFile(o, sys) ==
    IF ~sys.open THEN [os |-> o, m |-> NilMappedFile, err |-> "open"]
    ELSE LET fd == NewFd(o)
             opened == [o EXCEPT !.fds = @ \cup {fd}]
         IN  IF ~sys.stat THEN [os |-> opened, m |-> NilMappedFile, err |-> "stat"]
             ELSE IF ~sys.mmap THEN [os |-> opened, m |-> NilMappedFile, err |-> "mmap"]
             ELSE [os |-> [opened EXCEPT !.mapped = @ \cup {fd}],
                   m |-> [file |-> fd, data |-> fd], err |-> ""]

\* MappedFile.Close: sys tells which of syscall.Munmap and file.Close succeed.
MappedFileClose(o, m, sys) ==
    [fds |-> IF sys.close THEN o.fds \ {m.file} ELSE o.fds,
     mapped |-> IF sys.munmap THEN o.mapped \ {m.data} ELSE o.mapped,
     calls |-> <<"munmap", "close">>,
     err |-> IF ~sys.munmap THEN "munmap" ELSE IF ~sys.close THEN "close" ELSE ""]

\* What FromBinary(path) returns, or that it panicked.
LoadReturned(kind, m, mf, err) ==
    [kind |-> kind, model |-> m, m |-> mf, err |-> err, panic |-> FALSE]

LoadPanicked == [kind |-> -1, model |-> NilModel, m |-> NilMappedFile, err |-> "", panic |-> TRUE]

AfterParse(kind, r, mf) ==
    IF r.panic THEN LoadPanicked
    ELSE IF r.err # "" THEN LoadReturned(-1, NilModel, NilMappedFile, r.err)
    ELSE LoadReturned(kind, r.model, mf, "")

\* FromBinary(path) on the image f: the resources after the call and its
\* outcome.  No path of it calls m.Close().
FromBinaryPath(o, f, sys) ==
    LET opened == OpenMappedFile(o, sys)
    IN  [os |-> opened.os,
         out |-> IF opened.err # "" THEN LoadReturned(-1, NilModel, NilMappedFile, opened.err)
                 ELSE IF f.size >= MagicLen /\ IsHashedBinary(f)
                 THEN AfterParse(MODEL_HASHED, HashedUnsafeParseRaw(f), opened.m)
                 ELSE IF f.size >= MagicLen /\ IsSortedBinary(f)
                 THEN AfterParse(MODEL_SORTED, SortedUnsafeParseRaw(f), opened.m)
                 ELSE LoadReturned(-1, NilModel, NilMappedFile, "not an FSLM file")]

InitF == InitP

DoFromBinaryPath ==
    /\ pc = "damaged"
    /\ \E sys \in [open : BOOLEAN, stat : BOOLEAN, mmap : BOOLEAN] :
        /\ loaded' = FromBinaryPath(os, file, sys).out
        /\ os' = FromBinaryPath(os, file, sys).os
    /\ pc' = IF loaded'.panic THEN "panicked" ELSE "loaded"
    /\ UNCHANGED <<outside, builder, model, added, file, threads, heap, xmap, aborted>>

DoClose ==
    /\ pc = "loaded"
    /\ loaded.m # NilMappedFile
    /\ \E sys \in [munmap : BOOLEAN, close : BOOLEAN] :
        os' = MappedFileClose(os, loaded.m, sys)
    /\ pc' = "closed"
    /\ UNCHANGED <<outside, builder, model, added, file, loaded, threads, heap, xmap, aborted>>

NextF ==
    \/ DoDumpHashed
    \/ DoDumpSorted
    \/ DoWriteBinary
    \/ DoKeep
    \/ DoOverwriteMagic
    \/ DoTruncate
    \/ DoExtend
    \/ DoFromBinaryPath
    \/ DoClose

SpecF == InitF /\ [][NextF]_vars

\* FromBinary ended in one of the two ways: with a MappedFile that holds the
\* descriptor and the region, or with an error and nothing held.
EndedAsUnit ==
    pc \in {"loaded", "panicked"} =>
        /\ ~loaded.panic
        /\ \/ /\ loaded.err = ""
              /\ loaded.m # NilMappedFile
              /\ loaded.m.file \in os.fds
              /\ loaded.m.data \in os.mapped
           \/ /\ loaded.err # ""
              /\ loaded.m = NilMappedFile
              /\ os.fds = {}
              /\ os.mapped = {}

\* Close attempted both calls, and each that succeeded released its resource.
ClosedBoth ==
    pc = "closed" =>
        /\ os.calls = <<"munmap", "close">>
        /\ os.err = "" => (os.fds = {} /\ os.mapped = {})

\* C30: every call of FromBinary returns a MappedFile whose Close unmaps the
\* region and closes the file, attempting both even when unmapping fails, or
\* returns an error and leaves no descriptor open and no region mapped.
C30_LoadReleasesAsUnit == EndedAsUnit /\ ClosedBoth

====
